---- MODULE Spec2Model ----
(***************************************************************************)
(* A model of the Algorand SDK example collection:                         *)
(*   src/unnamed/part_000          account management                      *)
(*   src/transaction-operations.js payments, assets, atomic groups, lease  *)
(*   src/smart-contracts.js        logic signatures, applications, reads   *)
(*   src/algorand-examples.js      the one-file tour of the same shapes    *)
(* Every operation is a fixed sequence of calls into the SDK and the       *)
(* remote node.  The SDK and the node are the environment: a network call  *)
(* answers with a value or with an error, a local SDK call returns or      *)
(* throws.  The model keeps, per invocation, the position in the function  *)
(* body, its locals and the trace of calls it has made.                    *)
(***************************************************************************)
EXTENDS Integers, Sequences, FiniteSets, TLC

VARIABLES
  procs,      \* the invocations that may run (fixed by Init)
  inv,        \* inv[p]: the state of invocation p (position, locals, trace)
  heap,       \* heap[r]: the caller's address arrays, by reference
  wallet,     \* what generateAccount returned to the caller
  recovered,  \* what recoverAccount returned to the caller
  msigCalls   \* what createMultisigAccount was called with and returned

vars == <<procs, inv, heap, wallet, recovered, msigCalls>>

\* ------------------------------------------------------------------ bounds

NSeeds == 2
WordBase == 3
MaxAddrs == 2
MaxThreshold == 2

Seeds == 1..NSeeds
Words == 0..(WordBase - 1)

\* ------------------------------------------------------- SDK: keys, phrases

\* algosdk key derivation: the public key of a 32-byte seed.
PubKey(seed) == 10 + ((seed * 7) % 31)

\* An address value as this code handles it: an Address object, its text form
\* (addr.toString()) or undefined.  kind tells what the address is derived
\* from, v is the material it is derived from.
Address(kind, v) == [form |-> "Address", kind |-> kind, v |-> v]
UndefinedAddr == [form |-> "undefined", kind |-> "none", v |-> <<>>]
AddrToString(a) == [a EXCEPT !.form = IF a.form = "undefined" THEN "threw" ELSE "string"]

\* algosdk.generateAccount(): a fresh key pair; the randomness is the seed.
SdkGenerateAccount(seed) ==
  [type |-> "object", addr |-> Address("pk", <<PubKey(seed)>>),
   sk |-> <<seed, PubKey(seed)>>, text |-> UndefinedAddr]

\* The phrase checksum word.
PhraseChecksum(hi, lo) == (hi + 2 * lo + 1) % WordBase

\* algosdk.secretKeyToMnemonic(sk): the seed half of the key written in words,
\* followed by a checksum word.
secretKeyToMnemonic(sk) ==
  LET seed == sk[1]
      hi == seed \div WordBase
      lo == seed % WordBase
  IN <<hi, lo, PhraseChecksum(hi, lo)>>

\* algosdk.mnemonicToSecretKey(mn): throws on a bad checksum, else rebuilds the
\* key pair from the decoded seed.
MnemonicValid(mn) == mn[3] = PhraseChecksum(mn[1], mn[2])
mnemonicToSecretKey(mn) ==
  LET seed == mn[1] * WordBase + mn[2]
  IN [type |-> "object", addr |-> Address("pk", <<PubKey(seed)>>),
      sk |-> <<seed, PubKey(seed)>>, text |-> UndefinedAddr]

Mnemonics == Words \X Words \X Words

\* algosdk.multisigAddress(params): throws unless version is 1 and
\* 0 < threshold <= number of members; else the address is a digest of the
\* version, the threshold and the members' keys in order.
MultisigParamsValid(params) ==
  /\ params.version = 1
  /\ params.threshold > 0
  /\ Len(params.addrs) > 0
  /\ params.threshold <= Len(params.addrs)
multisigAddress(params) ==
  Address("msig", <<params.version, params.threshold>>
                    \o [i \in 1..Len(params.addrs) |-> params.addrs[i].v[1]])

\* ------------------------------------------------------------ values

\* An account object {addr, sk} or a text address, as a caller may pass either.
AcctObj(seed) ==
  [type |-> "object", addr |-> Address("pk", <<PubKey(seed)>>),
   sk |-> <<seed, PubKey(seed)>>, text |-> UndefinedAddr]
AddrString(seed) ==
  [type |-> "string", addr |-> UndefinedAddr, sk |-> <<>>,
   text |-> AddrToString(Address("pk", <<PubKey(seed)>>))]
NoAccount == [type |-> "undefined", addr |-> UndefinedAddr, sk |-> <<>>, text |-> UndefinedAddr]

\* The confirmation record the node returns for an included request.
NoRecord == [confirmedRound |-> 0, assetIndex |-> 0, applicationIndex |-> 0, txId |-> 0]

NoMsigParams == [version |-> 0, threshold |-> 0, addrs |-> "none"]

\* What an invocation hands back: what says which of the fields is the value.
NoValue ==
  [what |-> "undefined", rec |-> NoRecord, n |-> 0, account |-> NoAccount,
   mnemonic |-> <<>>, params |-> NoMsigParams, address |-> UndefinedAddr,
   program |-> <<>>, sig |-> 0, state |-> <<>>]
NoResult == [kind |-> "none", val |-> NoValue, err |-> "none"]
Returned(val) == [kind |-> "returned", val |-> val, err |-> "none"]
Raised(err) == [kind |-> "raised", val |-> NoValue, err |-> err]

\* One entry of an invocation's trace: a call it made, a log line it wrote, or
\* the way it ended.
Ev(k, s, n, m) == [k |-> k, s |-> s, e |-> "none", n |-> n, m |-> m]
ErrEv(k, s, e) == [k |-> k, s |-> s, e |-> e, n |-> 0, m |-> 0]

\* The caller's address arrays.
Refs == {"a", "b"}
AddrLists ==
  UNION {[1..n -> {Address("pk", <<PubKey(s)>>) : s \in Seeds}] : n \in 0..MaxAddrs}
Thresholds == 0..MaxThreshold

\* ------------------------------------------------- SDK: bytes and requests

\* A byte string that may be absent (undefined).
NoBytes == [defined |-> FALSE, bytes |-> <<>>]
Bytes(b) == [defined |-> TRUE, bytes |-> b]

RECURSIVE Utf8(_)
\* new TextEncoder().encode(text): one byte below 128, two bytes from there on.
Utf8(text) ==
  IF text = <<>> THEN <<>>
  ELSE LET c == Head(text)
       IN (IF c < 128 THEN <<c>> ELSE <<192 + (c \div 64), 128 + (c % 64)>>)
          \o Utf8(Tail(text))

\* Buffer.from(text, "base64") on one group of four sextets: three bytes.
Base64Decode(q) ==
  <<q[1] * 4 + (q[2] \div 16), (q[2] % 16) * 16 + (q[3] \div 4), (q[3] % 4) * 64 + q[4]>>

RECURSIVE Utf8Decode(_)
\* buffer.toString(): the bytes read as UTF-8, one code point per sequence of
\* one, two or three bytes, U+FFFD for a byte that starts no such sequence.
Utf8Decode(b) ==
  IF b = <<>> THEN <<>>
  ELSE IF b[1] < 128 THEN <<b[1]>> \o Utf8Decode(Tail(b))
  ELSE IF b[1] \in 194..223 /\ Len(b) > 1 /\ b[2] \in 128..191
    THEN <<(b[1] - 192) * 64 + (b[2] - 128)>> \o Utf8Decode(Tail(Tail(b)))
  ELSE IF b[1] \in 225..236 /\ Len(b) > 2 /\ b[2] \in 128..191 /\ b[3] \in 128..191
    THEN <<(b[1] - 224) * 4096 + (b[2] - 128) * 64 + (b[3] - 128)>>
         \o Utf8Decode(Tail(Tail(Tail(b))))
  ELSE <<65533>> \o Utf8Decode(Tail(b))

\* A logic signature account: the program, its arguments and, when delegated,
\* the key that signed the program (0: none).
NoLsig == [program |-> NoBytes, args |-> <<>>, sig |-> 0]
\* new algosdk.LogicSigAccount(program, args)
LogicSigAccount(program, args) == [program |-> Bytes(program), args |-> args, sig |-> 0]
\* logicSigAccount.sign(sk): the signature of sk's key over the program.
LogicSigSign(lsig, sk) == [lsig EXCEPT !.sig = sk[2]]
\* logicSigAccount.address(): a digest of the program bytes.
LogicSigAddress(lsig) == Address("lsig", lsig.program.bytes)

\* The asset parameters of an asset configuration request.
NoCfg ==
  [total |-> 0, decimals |-> 0, defaultFrozen |-> FALSE,
   manager |-> UndefinedAddr, reserve |-> UndefinedAddr,
   freeze |-> UndefinedAddr, clawback |-> UndefinedAddr,
   unitName |-> "", assetName |-> "", assetURL |-> "",
   assetMetadataHash |-> NoBytes, strictEmptyAddressChecking |-> TRUE]

\* The fields a request may carry; each make...Txn call sets some of them.
NoTxn ==
  [maker |-> "none", type |-> "none", sender |-> UndefinedAddr, receiver |-> UndefinedAddr,
   amount |-> 0, note |-> NoBytes, lease |-> NoBytes, rekeyTo |-> UndefinedAddr,
   assetIndex |-> 0, assetSender |-> UndefinedAddr, cfg |-> NoCfg,
   freezeTarget |-> UndefinedAddr, frozen |-> FALSE,
   appIndex |-> 0, onComplete |-> "none", appArgs |-> <<>>, accounts |-> <<>>,
   foreignApps |-> <<>>, foreignAssets |-> <<>>,
   approvalProgram |-> NoBytes, clearProgram |-> NoBytes, schema |-> <<0, 0, 0, 0>>,
   suggestedParams |-> 0, group |-> 0]

\* The SDK reads an address given as an Address object or as text.
IsAddr(a) == a.form \in {"Address", "string"}
EnsureAddress(a) == IF IsAddr(a) THEN [a EXCEPT !.form = "Address"] ELSE a

\* Which address fields a request type cannot do without.
FieldsPresent(f) ==
  /\ IsAddr(f.sender)
  /\ f.type \in {"pay", "axfer"} => IsAddr(f.receiver)
  /\ f.type = "afrz" => IsAddr(f.freezeTarget)
  /\ f.suggestedParams # 0
\* No field is the result of a failed conversion (a TypeError in the caller).
NoTypeError(f) ==
  /\ \A a \in {f.sender, f.receiver, f.rekeyTo, f.assetSender, f.freezeTarget,
               f.cfg.manager, f.cfg.reserve, f.cfg.freeze, f.cfg.clawback} :
        a.form # "threw"
  /\ \A i \in 1..Len(f.accounts) : f.accounts[i].form # "threw"

\* algosdk.make...Txn...FromObject(fields): the request, its addresses read.
SdkMakeTxn(f) ==
  [f EXCEPT !.sender = EnsureAddress(@), !.receiver = EnsureAddress(@),
            !.rekeyTo = EnsureAddress(@), !.assetSender = EnsureAddress(@),
            !.freezeTarget = EnsureAddress(@),
            !.cfg = [@ EXCEPT !.manager = EnsureAddress(@), !.reserve = EnsureAddress(@),
                              !.freeze = EnsureAddress(@), !.clawback = EnsureAddress(@)],
            !.accounts = [i \in 1..Len(@) |-> EnsureAddress(@[i])]]

\* txn.rawTxID(): a digest of the request.
RawTxID(txn) ==
  txn.amount + txn.assetIndex + txn.appIndex + txn.receiver.v[1] + Len(txn.note.bytes)

\* algosdk.computeGroupID(txns): a digest of the members' identifiers, in order.
ComputeGroupID(txns) ==
  LET RECURSIVE Mix(_, _)
      Mix(i, acc) == IF i > Len(txns) THEN acc
                     ELSE Mix(i + 1, (acc * 3 + RawTxID(txns[i])) % 97)
  IN 1 + Mix(1, Len(txns))
\* algosdk.assignGroupID(txns): throws for no request, else sets the same
\* group on each of them.
AssignGroupIDThrows(txns) == Len(txns) = 0
AssignGroupID(txns) ==
  [i \in 1..Len(txns) |-> [txns[i] EXCEPT !.group = ComputeGroupID(txns)]]

\* A signed request: the request, the key that signed it (0: none) and, for the
\* other two ways to authorise, the logic signature or the multisig part.
NoMsig == [params |-> NoMsigParams, addrs |-> <<>>, signers |-> <<>>]
SignedTxn(txn, key, lsig, msig) == [txn |-> txn, sig |-> key, lsig |-> lsig, msig |-> msig]
\* txn.signTxn(sk): throws without a key.
SignTxnThrows(sk) == sk = <<>>
SignTxn(txn, sk) == SignedTxn(txn, sk[2], NoLsig, NoMsig)

\* ------------------------------------------------------------ operations

\* The asynchronous operations, by file: tx transaction-operations.js,
\* sc smart-contracts.js, ex algorand-examples.js, ac unnamed/part_000.
PlainSubmitOps ==
  {"tx.sendPayment", "tx.createAsset", "tx.configureAsset", "tx.optInToAsset",
   "tx.transferAsset", "tx.freezeAsset", "tx.revokeAsset", "tx.destroyAsset",
   "tx.sendTransactionWithLease",
   "sc.sendWithLogicSignature", "sc.optInToApplication", "sc.callApplication",
   "sc.deleteApplication", "sc.closeOutFromApplication", "sc.clearApplicationState",
   "ex.sendPayment", "ex.createAsset", "ex.optInToAsset", "ex.transferAsset",
   "ex.callApplication", "ex.sendMultisigTransaction",
   "ac.rekeyAccount", "ac.sendWithRekeyedAccount"}
GroupSubmitOps == {"tx.sendAtomicTransactions", "ex.sendAtomicTransactions"}
CompileSubmitOps == {"sc.createApplication", "sc.updateApplication", "ex.createApplication"}
ComposerOps == {"ex.callABIMethod"}
\* Every operation that hands a request to the node.
SubmitOps == PlainSubmitOps \cup GroupSubmitOps \cup CompileSubmitOps \cup ComposerOps
CompileOps == {"sc.compileProgram", "ex.compileProgram"}
LogicSigOps ==
  {"sc.createLogicSignature", "sc.createDelegatedLogicSignature", "ex.createLogicSignature"}
ReadOps == {"sc.readGlobalState", "sc.readLocalState", "ac.checkAccountInfo"}
AsyncOps == SubmitOps \cup CompileOps \cup LogicSigOps \cup ReadOps
\* The synchronous helpers: no try block, no network.
GenerateOps == {"ac.generateAccount", "ex.generateAccount"}
RecoverOps == {"ac.recoverAccount", "ex.recoverAccount"}
MultisigOps == {"ac.createMultisigAccount", "ex.createMultisigAccount"}
LocalOps == GenerateOps \cup RecoverOps \cup MultisigOps
Ops == AsyncOps \cup LocalOps

\* The body of each asynchronous operation as the sequence of its calls.
Program(op) ==
  CASE op \in PlainSubmitOps ->
         <<"getAlgodClient", "getTransactionParams", "construct", "sign",
           "sendRawTransaction", "waitForConfirmation", "return">>
    [] op \in GroupSubmitOps ->
         <<"getAlgodClient", "getTransactionParams", "construct", "assignGroupID",
           "sign", "sendRawTransaction", "waitForConfirmation", "return">>
    [] op \in CompileSubmitOps ->
         <<"getAlgodClient", "compileApproval", "compileClear", "getTransactionParams",
           "construct", "sign", "sendRawTransaction", "waitForConfirmation", "return">>
    [] op \in ComposerOps ->
         <<"getAlgodClient", "getMethodByName", "getTransactionParams",
           "addMethodCall", "execute", "return">>
    [] op \in CompileOps -> <<"getAlgodClient", "compile", "return">>
    [] op = "sc.createDelegatedLogicSignature" ->
         <<"compileSource", "newLogicSigAccount", "signLogicSig", "return">>
    [] op \in LogicSigOps -> <<"compileSource", "newLogicSigAccount", "return">>
    [] op \in ReadOps -> <<"getAlgodClient", "query", "return">>
    [] op = "ex.runExamples" ->
         <<"banner", "log", "generateAccount", "generateAccount", "generateAccount",
           "recoverAccount", "logAddress", "notice", "notice", "complete">>
    [] op = "ac.runAccountExamples" ->
         <<"banner", "log", "generateAccount", "generateAccount", "generateAccount",
           "log", "recoverAccount", "logAddress", "log", "createMultisigAccount",
           "notice", "notice", "complete">>
    [] op = "tx.runTransactionExamples" ->
         <<"banner", "algosdk.generateAccount", "algosdk.generateAccount",
           "algosdk.generateAccount", "logAddress", "logAddress", "logAddress",
           "notice", "notice", "complete">>
    [] op = "sc.runSmartContractExamples" ->
         <<"banner", "algosdk.generateAccount", "algosdk.generateAccount",
           "logAddress", "logAddress", "notice", "notice", "complete">>
    [] OTHER -> <<>>

\* The calls that go to the node and suspend the caller until it answers.
NetSteps ==
  {"getTransactionParams", "sendRawTransaction", "waitForConfirmation",
   "compileApproval", "compileClear", "compileSource", "compile", "query", "execute"}
\* The calls into compileProgram, which opens a client of its own.
CompileCalls == {"compileApproval", "compileClear", "compileSource"}

\* The message each catch block logs before it rethrows.
ErrorContext(op) ==
  CASE op \in {"tx.sendPayment", "ex.sendPayment"} -> "Error sending payment:"
    [] op \in {"tx.createAsset", "ex.createAsset"} -> "Error creating asset:"
    [] op = "tx.configureAsset" -> "Error configuring asset:"
    [] op \in {"tx.optInToAsset", "ex.optInToAsset"} -> "Error opting in to asset:"
    [] op \in {"tx.transferAsset", "ex.transferAsset"} -> "Error transferring asset:"
    [] op = "tx.freezeAsset" -> "Error freezing asset:"
    [] op = "tx.revokeAsset" -> "Error revoking asset:"
    [] op = "tx.destroyAsset" -> "Error destroying asset:"
    [] op \in GroupSubmitOps -> "Error sending atomic transactions:"
    [] op = "tx.sendTransactionWithLease" -> "Error sending transaction with lease:"
    [] op \in CompileOps -> "Error compiling program:"
    [] op \in {"sc.createLogicSignature", "ex.createLogicSignature"} ->
         "Error creating logic signature:"
    [] op = "sc.createDelegatedLogicSignature" -> "Error creating delegated logic signature:"
    [] op = "sc.sendWithLogicSignature" -> "Error sending with LogicSig:"
    [] op \in {"sc.createApplication", "ex.createApplication"} -> "Error creating application:"
    [] op = "sc.updateApplication" -> "Error updating application:"
    [] op = "sc.optInToApplication" -> "Error opting in to application:"
    [] op \in {"sc.callApplication", "ex.callApplication"} -> "Error calling application:"
    [] op = "sc.deleteApplication" -> "Error deleting application:"
    [] op = "sc.closeOutFromApplication" -> "Error closing out from application:"
    [] op = "sc.clearApplicationState" -> "Error clearing application state:"
    [] op = "sc.readGlobalState" -> "Error reading global state:"
    [] op = "sc.readLocalState" -> "Error reading local state:"
    [] op = "ex.sendMultisigTransaction" -> "Error sending multisig transaction:"
    [] op = "ex.callABIMethod" -> "Error calling ABI method:"
    [] op = "ac.checkAccountInfo" -> "Error checking account info:"
    [] op = "ac.rekeyAccount" -> "Error rekeying account:"
    [] op = "ac.sendWithRekeyedAccount" -> "Error sending with rekeyed account:"
    [] op = "ex.runExamples" -> "Error running examples:"
    [] op = "ac.runAccountExamples" -> "Error running account examples:"
    [] op = "tx.runTransactionExamples" -> "Error running transaction examples:"
    [] op = "sc.runSmartContractExamples" -> "Error running smart contract examples:"
    [] OTHER -> ""

\* ------------------------------------------------------------ arguments

MaxAmount == 1
MaxId == 1

\* An optional text argument: whether the caller gave it, and its characters.
NoText == [given |-> FALSE, text |-> <<>>]
Text(t) == [given |-> TRUE, text |-> t]

\* An application argument: text or bytes.
StrArg(t) == [type |-> "string", data |-> t]
BytesArg(b) == [type |-> "object", data |-> b]

\* The arguments of a call; each operation reads the ones it declares.
NoArgs ==
  [sender |-> NoAccount, auth |-> NoAccount, receiver |-> NoAccount,
   target |-> NoAccount, receiver2 |-> NoAccount, receivers |-> <<>>,
   amount |-> 0, assetId |-> 0, appId |-> 0, note |-> NoText, frozen |-> FALSE,
   lease |-> NoBytes, newManager |-> NoAccount, newReserve |-> NoAccount,
   newFreeze |-> NoAccount, newClawback |-> NoAccount,
   assetName |-> "", unitName |-> "", total |-> 0, decimals |-> 0, url |-> NoText,
   approvalProgram |-> "", clearProgram |-> "", schemaGiven |-> FALSE,
   appArgs |-> <<>>, accounts |-> <<>>, lsig |-> NoLsig, programSource |-> "",
   delegated |-> FALSE, multisigParams |-> NoMsigParams, signers |-> <<>>,
   methodName |-> "", mnemonic |-> <<>>, addresses |-> "none", threshold |-> 0,
   seed |-> 0]

Accounts == {AcctObj(s) : s \in Seeds}
\* A receiver may be passed as an account object or as its text address.
Receivers == Accounts \cup {AddrString(s) : s \in Seeds}
Amounts == 0..MaxAmount
Ids == 1..MaxId
Notes == {NoText, Text(<<>>), Text(<<72, 233>>)}
Sources == {"int 1", "err"}
\* The sextets of the compiled program the node answers with.
CompiledResult(source) == IF source = "int 1" THEN <<1, 32, 4, 16>> ELSE <<0, 0, 0, 0>>

\* A receiver handed on as it came, an account object included.
AddressTextAsGiven(x) ==
  IF x.type = "string" THEN x.text ELSE [form |-> "invalid", kind |-> "none", v |-> <<>>]
\* typeof x === 'string' ? x : x.addr.toString()
AddressText(x) == IF x.type = "string" THEN x.text ELSE AddrToString(x.addr)
\* x ? (typeof x === 'string' ? x : x.addr.toString()) : undefined
OptionalAddressText(x) == IF x.type = "undefined" THEN UndefinedAddr ELSE AddressText(x)
\* typeof x === 'string' ? x : x.addr
AddressOrText(x) == IF x.type = "string" THEN x.text ELSE x.addr
\* x.addr
AddrField(x) == x.addr
\* x passed on as it is: the SDK reads text and Address objects only.
AsGiven(x) ==
  IF x.type = "string" THEN x.text ELSE [form |-> "invalid", kind |-> "none", v |-> <<>>]

\* The calls each operation is tried with.
Inputs(op) ==
  CASE op \in {"tx.sendPayment", "ex.sendPayment"} ->
         {[NoArgs EXCEPT !.sender = s, !.receiver = r, !.amount = n, !.note = t] :
            s \in Accounts, r \in Receivers, n \in Amounts, t \in Notes}
    [] op \in {"tx.createAsset", "ex.createAsset"} ->
         {[NoArgs EXCEPT !.sender = s, !.assetName = "Example Token", !.unitName = "EX",
                         !.total = n, !.decimals = 0, !.url = u] :
            s \in Accounts, n \in Amounts, u \in {NoText, Text(<<117>>)}}
    [] op = "tx.configureAsset" ->
         {[NoArgs EXCEPT !.sender = s, !.assetId = i, !.newManager = m, !.newReserve = r] :
            s \in Accounts, i \in Ids, m \in Receivers \cup {NoAccount},
            r \in {NoAccount, AcctObj(1)}}
    [] op \in {"tx.optInToAsset", "ex.optInToAsset", "tx.destroyAsset"} ->
         {[NoArgs EXCEPT !.sender = s, !.assetId = i] : s \in Accounts, i \in Ids}
    [] op \in {"tx.transferAsset", "ex.transferAsset"} ->
         {[NoArgs EXCEPT !.sender = s, !.receiver = r, !.assetId = i, !.amount = n] :
            s \in Accounts, r \in Receivers, i \in Ids, n \in Amounts}
    [] op = "tx.freezeAsset" ->
         {[NoArgs EXCEPT !.sender = s, !.receiver = r, !.assetId = i, !.frozen = f] :
            s \in Accounts, r \in Receivers, i \in Ids, f \in BOOLEAN}
    [] op = "tx.revokeAsset" ->
         {[NoArgs EXCEPT !.sender = s, !.target = h, !.receiver = r, !.assetId = i,
                         !.amount = n] :
            s \in Accounts, h \in Receivers, r \in Accounts, i \in Ids, n \in Amounts}
    [] op = "tx.sendAtomicTransactions" ->
         {[NoArgs EXCEPT !.sender = s, !.receivers = rs, !.amount = n] :
            s \in Accounts, n \in Amounts,
            rs \in UNION {[1..k -> Receivers] : k \in 0..MaxAddrs}}
    [] op = "ex.sendAtomicTransactions" ->
         {[NoArgs EXCEPT !.sender = s, !.receiver = r, !.receiver2 = q, !.amount = n] :
            s \in Accounts, r \in Receivers, q \in Accounts, n \in Amounts}
    [] op = "tx.sendTransactionWithLease" ->
         {[NoArgs EXCEPT !.sender = s, !.receiver = r, !.amount = n, !.lease = l] :
            s \in Accounts, r \in Receivers, n \in Amounts,
            l \in {Bytes(<<7>>), Bytes(<<9>>)}}
    [] op = "sc.sendWithLogicSignature" ->
         {[NoArgs EXCEPT !.lsig = l, !.receiver = r, !.amount = n] :
            r \in Receivers, n \in Amounts,
            l \in {LogicSigAccount(Base64Decode(CompiledResult(src)), <<>>) : src \in Sources}
                 \cup {LogicSigSign(LogicSigAccount(Base64Decode(CompiledResult("int 1")), <<>>),
                                    a.sk) : a \in Accounts}}
    [] op \in CompileSubmitOps ->
         {[NoArgs EXCEPT !.sender = s, !.appId = i, !.approvalProgram = ap,
                         !.clearProgram = cp, !.schemaGiven = g] :
            s \in Accounts, i \in Ids, ap \in Sources, cp \in Sources, g \in BOOLEAN}
    [] op \in {"sc.optInToApplication", "sc.deleteApplication",
               "sc.closeOutFromApplication", "sc.clearApplicationState"} ->
         {[NoArgs EXCEPT !.sender = s, !.appId = i] : s \in Accounts, i \in Ids}
    [] op \in {"sc.callApplication", "ex.callApplication"} ->
         {[NoArgs EXCEPT !.sender = s, !.appId = i, !.appArgs = as, !.accounts = cs] :
            s \in Accounts, i \in Ids,
            as \in {<<>>, <<StrArg(<<105>>)>>, <<BytesArg(<<1, 2>>), StrArg(<<233>>)>>},
            cs \in {<<>>, <<AcctObj(1)>>, <<AddrString(1), AcctObj(2)>>}}
    [] op = "ex.sendMultisigTransaction" ->
         {[NoArgs EXCEPT !.multisigParams = [version |-> 1, threshold |-> t, addrs |-> r],
                         !.signers = sg, !.receiver = rc, !.amount = n] :
            t \in Thresholds, r \in Refs, rc \in Receivers, n \in Amounts,
            sg \in UNION {[1..k -> Accounts] : k \in 0..MaxAddrs}}
    [] op = "ex.callABIMethod" ->
         {[NoArgs EXCEPT !.sender = s, !.appId = i, !.methodName = m, !.appArgs = as] :
            s \in Accounts, i \in Ids, m \in {"increment", ""},
            as \in {<<>>, <<StrArg(<<72>>)>>}}
    [] op \in {"ac.rekeyAccount"} ->
         {[NoArgs EXCEPT !.sender = s, !.auth = a] : s \in Accounts, a \in Accounts}
    [] op = "ac.sendWithRekeyedAccount" ->
         {[NoArgs EXCEPT !.sender = s, !.auth = a, !.receiver = r, !.amount = n] :
            s \in Accounts, a \in Accounts, r \in Receivers, n \in Amounts}
    [] op \in CompileOps ->
         {[NoArgs EXCEPT !.programSource = src] : src \in Sources}
    [] op \in LogicSigOps ->
         {[NoArgs EXCEPT !.programSource = src, !.sender = s] :
            src \in Sources, s \in Accounts}
    [] op = "sc.readGlobalState" -> {[NoArgs EXCEPT !.appId = i] : i \in Ids}
    [] op = "sc.readLocalState" ->
         {[NoArgs EXCEPT !.receiver = r, !.appId = i] : r \in Receivers, i \in Ids}
    [] op = "ac.checkAccountInfo" -> {[NoArgs EXCEPT !.receiver = r] : r \in Receivers}
    [] op \in GenerateOps -> {[NoArgs EXCEPT !.seed = s] : s \in Seeds}
    [] op \in RecoverOps -> {[NoArgs EXCEPT !.mnemonic = m] : m \in Mnemonics}
    [] op \in MultisigOps ->
         {[NoArgs EXCEPT !.addresses = r, !.threshold = t] : r \in Refs, t \in Thresholds}
    [] OTHER -> {}

\* ------------------------------------------------- request construction

ThrewAddr == [form |-> "threw", kind |-> "none", v |-> <<>>]
\* The multisig descriptor with its address array read from the caller's heap.
Resolve(params) == [params EXCEPT !.addrs = heap[@]]
\* algosdk.multisigAddress(multisigParams).toString()
MultisigSenderText(params) ==
  IF MultisigParamsValid(Resolve(params))
  THEN AddrToString(multisigAddress(Resolve(params)))
  ELSE ThrewAddr

\* The arguments converted and handed on last first.
ConvertedArgsReversed(appArgs) ==
  [i \in 1..Len(appArgs) |->
     LET arg == appArgs[Len(appArgs) + 1 - i]
     IN IF arg.type = "string" THEN Utf8(arg.data) ELSE arg.data]
\* appArgs.map(arg => typeof arg === 'string' ? encode(arg) : arg)
ConvertedArgs(appArgs) ==
  [i \in 1..Len(appArgs) |->
     IF appArgs[i].type = "string" THEN Utf8(appArgs[i].data) ELSE appArgs[i].data]
\* String(bytes): the decimal digits of each byte, joined by commas.
BytesAsText(b) ==
  LET RECURSIVE Join(_)
      Join(i) == IF i > Len(b) THEN <<>>
                 ELSE (IF i > 1 THEN <<44>> ELSE <<>>) \o <<48 + (b[i] % 10)>> \o Join(i + 1)
  IN Join(1)
\* appArgs.map(arg => new TextEncoder().encode(arg))
EncodedArgs(appArgs) ==
  [i \in 1..Len(appArgs) |->
     IF appArgs[i].type = "string" THEN Utf8(appArgs[i].data)
     ELSE Utf8(BytesAsText(appArgs[i].data))]
\* accounts.map(acct => typeof acct === 'string' ? acct : acct.addr.toString())
ConvertedAccounts(accounts) == [i \in 1..Len(accounts) |-> AddressText(accounts[i])]

Pay(sender, receiver, amount, sp) ==
  [NoTxn EXCEPT !.maker = "makePaymentTxnWithSuggestedParamsFromObject", !.type = "pay",
                !.sender = sender, !.receiver = receiver, !.amount = amount,
                !.suggestedParams = sp]
\* An asset transfer whose asset goes in under a name the SDK does not read.
AssetTransferNoIndex(sender, receiver, amount, assetIndex, sp) ==
  [NoTxn EXCEPT !.maker = "makeAssetTransferTxnWithSuggestedParamsFromObject",
                !.type = "axfer", !.sender = sender, !.receiver = receiver,
                !.amount = amount, !.suggestedParams = sp]
AssetTransfer(sender, receiver, amount, assetIndex, sp) ==
  [NoTxn EXCEPT !.maker = "makeAssetTransferTxnWithSuggestedParamsFromObject",
                !.type = "axfer", !.sender = sender, !.receiver = receiver,
                !.amount = amount, !.assetIndex = assetIndex, !.suggestedParams = sp]
AssetCreate(creator, a, url, sp) ==
  [NoTxn EXCEPT !.maker = "makeAssetCreateTxnWithSuggestedParamsFromObject",
                !.type = "acfg", !.sender = creator,
                !.cfg = [NoCfg EXCEPT !.total = a.total, !.decimals = a.decimals,
                                      !.defaultFrozen = FALSE, !.manager = creator,
                                      !.reserve = creator, !.freeze = creator,
                                      !.clawback = creator, !.unitName = a.unitName,
                                      !.assetName = a.assetName, !.assetURL = url],
                !.suggestedParams = sp]
AppCall(maker, onComplete, sender, appIndex, sp) ==
  [NoTxn EXCEPT !.maker = maker, !.type = "appl", !.onComplete = onComplete,
                !.sender = sender, !.appIndex = appIndex, !.suggestedParams = sp]

\* The object each operation hands to the SDK's make...Txn function, one per
\* request it builds; sp are the fetched parameters, compiled the two programs.
Fields(op, a, sp, compiled) ==
  CASE op = "tx.sendPayment" ->
         <<[Pay(a.sender.addr, AddressText(a.receiver), a.amount, sp) EXCEPT
              !.note = IF a.note.given /\ a.note.text # <<>>
                       THEN Bytes(Utf8(a.note.text)) ELSE NoBytes]>>
    [] op = "ex.sendPayment" ->
         <<[Pay(a.sender.addr, AddrField(a.receiver), a.amount, sp) EXCEPT
              !.note = Bytes(Utf8(a.note.text))]>>
    [] op = "tx.createAsset" ->
         <<AssetCreate(a.sender.addr, a, IF a.url.given THEN "given" ELSE "", sp)>>
    [] op = "ex.createAsset" ->
         <<AssetCreate(a.sender.addr, a, "https://example.com", sp)>>
    [] op = "tx.configureAsset" ->
         <<[NoTxn EXCEPT !.maker = "makeAssetConfigTxnWithSuggestedParamsFromObject",
                         !.type = "acfg", !.sender = a.sender.addr,
                         !.assetIndex = a.assetId,
                         !.cfg = [NoCfg EXCEPT
                                    !.manager = OptionalAddressText(a.newManager),
                                    !.reserve = OptionalAddressText(a.newReserve),
                                    !.freeze = OptionalAddressText(a.newFreeze),
                                    !.clawback = OptionalAddressText(a.newClawback),
                                    !.strictEmptyAddressChecking = FALSE],
                         !.suggestedParams = sp]>>
    [] op \in {"tx.optInToAsset", "ex.optInToAsset"} ->
         <<AssetTransfer(a.sender.addr, a.sender.addr, 0, a.assetId, sp)>>
    [] op = "tx.transferAsset" ->
         <<AssetTransfer(a.sender.addr, AddressText(a.receiver), a.amount, a.assetId, sp)>>
    [] op = "ex.transferAsset" ->
         <<AssetTransfer(a.sender.addr, AddrField(a.receiver), a.amount, a.assetId, sp)>>
    [] op = "tx.freezeAsset" ->
         <<[NoTxn EXCEPT !.maker = "makeAssetFreezeTxnWithSuggestedParamsFromObject",
                         !.type = "afrz", !.sender = a.sender.addr,
                         !.freezeTarget = AddressText(a.receiver),
                         !.assetIndex = a.assetId, !.frozen = a.frozen,
                         !.suggestedParams = sp]>>
    [] op = "tx.revokeAsset" ->
         <<[AssetTransfer(a.sender.addr, AddressText(a.receiver), a.amount, a.assetId, sp)
              EXCEPT !.assetSender = AddressText(a.target)]>>
    [] op = "tx.destroyAsset" ->
         <<[NoTxn EXCEPT !.maker = "makeAssetDestroyTxnWithSuggestedParamsFromObject",
                         !.type = "acfg", !.sender = a.sender.addr,
                         !.assetIndex = a.assetId, !.suggestedParams = sp]>>
    [] op = "tx.sendAtomicTransactions" ->
         [i \in 1..Len(a.receivers) |->
            [Pay(a.sender.addr, AddressOrText(a.receivers[i]), a.amount, sp) EXCEPT
               !.note = Bytes(Utf8(<<80, 48 + i>>))]]
    [] op = "ex.sendAtomicTransactions" ->
         <<[Pay(a.sender.addr, AddrField(a.receiver), a.amount, sp) EXCEPT
              !.note = Bytes(Utf8(<<70>>))],
           [Pay(a.sender.addr, AddrField(a.receiver2), a.amount, sp) EXCEPT
              !.note = Bytes(Utf8(<<83>>))]>>
    [] op = "tx.sendTransactionWithLease" ->
         <<[Pay(a.sender.addr, AddressText(a.receiver), a.amount, sp) EXCEPT
              !.lease = a.lease]>>
    [] op = "sc.sendWithLogicSignature" ->
         <<Pay(AddrToString(LogicSigAddress(a.lsig)), AddressText(a.receiver), a.amount, sp)>>
    [] op = "sc.createApplication" ->
         <<[AppCall("makeApplicationCreateTxnFromObject", "NoOpOC", a.sender.addr, 0, sp)
              EXCEPT !.approvalProgram = Bytes(compiled[1]),
                     !.clearProgram = Bytes(compiled[2]),
                     !.schema = IF a.schemaGiven THEN <<2, 2, 2, 2>> ELSE <<1, 1, 1, 1>>]>>
    [] op = "ex.createApplication" ->
         <<[AppCall("makeApplicationCreateTxnFromObject", "NoOpOC", a.sender.addr, 0, sp)
              EXCEPT !.approvalProgram = Bytes(compiled[1]),
                     !.clearProgram = Bytes(compiled[2]),
                     !.schema = <<1, 1, 1, 1>>]>>
    [] op = "sc.updateApplication" ->
         <<[AppCall("makeApplicationUpdateTxnFromObject", "UpdateApplicationOC",
                    a.sender.addr, a.appId, sp)
              EXCEPT !.approvalProgram = Bytes(compiled[1]),
                     !.clearProgram = Bytes(compiled[2])]>>
    [] op = "sc.optInToApplication" ->
         <<AppCall("makeApplicationOptInTxnFromObject", "OptInOC", a.sender.addr, a.appId, sp)>>
    [] op = "sc.deleteApplication" ->
         <<AppCall("makeApplicationDeleteTxnFromObject", "DeleteApplicationOC",
                   a.sender.addr, a.appId, sp)>>
    [] op = "sc.closeOutFromApplication" ->
         <<AppCall("makeApplicationCloseOutTxnFromObject", "CloseOutOC",
                   a.sender.addr, a.appId, sp)>>
    [] op = "sc.clearApplicationState" ->
         <<AppCall("makeApplicationClearStateTxnFromObject", "ClearStateOC",
                   a.sender.addr, a.appId, sp)>>
    [] op = "sc.callApplication" ->
         <<[AppCall("makeApplicationNoOpTxnFromObject", "NoOpOC", a.sender.addr, a.appId, sp)
              EXCEPT !.appArgs = ConvertedArgs(a.appArgs),
                     !.accounts = ConvertedAccounts(a.accounts)]>>
    [] op = "ex.callApplication" ->
         <<[AppCall("makeApplicationNoOpTxnFromObject", "NoOpOC", a.sender.addr, a.appId, sp)
              EXCEPT !.appArgs = EncodedArgs(a.appArgs)]>>
    [] op = "ex.sendMultisigTransaction" ->
         <<[Pay(MultisigSenderText(a.multisigParams), AddrField(a.receiver), a.amount, sp)
              EXCEPT !.note = Bytes(Utf8(<<77>>))]>>
    [] op = "ac.rekeyAccount" ->
         <<[Pay(a.sender.addr, a.sender.addr, 0, sp) EXCEPT !.rekeyTo = a.auth.addr]>>
    [] op = "ac.sendWithRekeyedAccount" ->
         <<Pay(a.sender.addr, AsGiven(a.receiver), a.amount, sp)>>
    [] OTHER -> <<>>

\* ------------------------------------------------------------- signing

\* Signing with the key of the account the request acts upon, when it has one.
SignerKeyOfHolder(op, a) == IF a.target.sk # <<>> THEN a.target.sk ELSE a.sender.sk
\* Signing with the key of the account the request is sent from.
SignerKeyOfSender(op, a) == a.sender.sk
\* A configuration signed by the manager it names, when that one has a key.
SignerKeyOfNewManager(op, a) ==
  CASE op = "ac.sendWithRekeyedAccount" -> a.auth.sk
    [] op = "tx.configureAsset" /\ a.newManager.sk # <<>> -> a.newManager.sk
    [] OTHER -> a.sender.sk

\* The key each operation signs its requests with.
SignerKey(op, a) ==
  CASE op = "ac.sendWithRekeyedAccount" -> a.auth.sk
    [] OTHER -> a.sender.sk

\* The position of key pk among the members, 0 when it is none of them.
MemberIndex(addrs, pk) ==
  IF \E i \in 1..Len(addrs) : addrs[i].v[1] = pk
  THEN CHOOSE i \in 1..Len(addrs) :
         addrs[i].v[1] = pk /\ \A j \in 1..(i - 1) : addrs[j].v[1] # pk
  ELSE 0
\* algosdk.signMultisigTransaction(txn, params, sk): the request with one slot
\* per member, the signer's slot filled.
SignMultisig(txn, params, sk) ==
  LET addrs == Resolve(params).addrs
  IN SignedTxn(txn, 0, NoLsig,
       [params |-> params, addrs |-> addrs,
        signers |-> [i \in 1..Len(addrs) |-> i = MemberIndex(addrs, sk[2])]])
\* algosdk.appendSignMultisigTransaction(blob, params, sk): the signer's slot
\* filled in the blob it is given.
AppendSignMultisig(blob, params, sk) ==
  [blob EXCEPT !.msig.signers =
     [i \in 1..Len(@) |-> @[i] \/ i = MemberIndex(blob.msig.addrs, sk[2])]]
\* Both throw for a key that is none of the members'.
MultisigSignThrows(params, sk) == MemberIndex(Resolve(params).addrs, sk[2]) = 0

\* Signing that stops after the first signer.
AppendSignersLeftOut(blob, params, signers, i) == blob

RECURSIVE AppendSigners(_, _, _, _)
\* for (let i = 1; i < signers.length; i++) signedTxn = appendSign...(signedTxn.blob, ...)
AppendSigners(blob, params, signers, i) ==
  IF i > Len(signers) THEN blob
  ELSE AppendSigners(AppendSignMultisig(blob, params, signers[i].sk), params, signers, i + 1)

\* The signing statements of each operation: whether they throw, the signed
\* requests in order, and the key of each signature made, in order.
SignAll(op, a, txns) ==
  CASE op = "sc.sendWithLogicSignature" ->
         [threw |-> FALSE, err |-> "none",
          signed |-> <<SignedTxn(txns[1], 0, a.lsig, NoMsig)>>, keys |-> <<0>>]
    [] op = "ex.sendMultisigTransaction" ->
         IF Len(a.signers) = 0
         THEN [threw |-> TRUE, err |-> "TypeError", signed |-> <<>>, keys |-> <<>>]
         ELSE IF \E i \in 1..Len(a.signers) :
                   MultisigSignThrows(a.multisigParams, a.signers[i].sk)
         THEN [threw |-> TRUE, err |-> "sdk: key does not exist", signed |-> <<>>,
               keys |-> <<>>]
         ELSE [threw |-> FALSE, err |-> "none",
               signed |-> <<AppendSigners(
                              SignMultisig(txns[1], a.multisigParams, a.signers[1].sk),
                              a.multisigParams, a.signers, 2)>>,
               keys |-> [i \in 1..Len(a.signers) |-> a.signers[i].sk[2]]]
    [] OTHER ->
         IF SignTxnThrows(SignerKey(op, a))
         THEN [threw |-> TRUE, err |-> "sdk: no key", signed |-> <<>>, keys |-> <<>>]
         ELSE [threw |-> FALSE, err |-> "none",
               signed |-> [i \in 1..Len(txns) |-> SignTxn(txns[i], SignerKey(op, a))],
               keys |-> [i \in 1..Len(txns) |-> SignerKey(op, a)[2]]]

\* ------------------------------------------------------------ invocations

NTxIds == 2
NParams == 1
RoundBudget == 5

TxIds == 1..NTxIds
ParamValues == 1..NParams
\* What the node or the transport may answer a request with instead of a value.
NetErrors == {"network error", "request rejected"}

\* A wait whose budget follows an argument of the caller.
WaitRoundsFromCaller(op, a) == RoundBudget + a.amount

\* The rounds each operation lets the confirmation wait run.
WaitRounds(op, a) == RoundBudget

\* ------------------------------------------------- reading application state

MaxItems == 2
MaxUint == 1
\* Base64 texts the node may answer with: "abc", and an e-acute followed by "A".
Payloads == {<<24, 22, 9, 35>>, <<48, 58, 37, 1>>}
\* One key/value entry of an application's state as the node reports it.
StateItems ==
  {[key |-> k, value |-> [type |-> t, bytes |-> b, uint |-> u]] :
     k \in Payloads, t \in 0..2, b \in Payloads, u \in 0..MaxUint}
StateLists(n) == UNION {[1..m -> StateItems] : m \in 0..n}
\* An account's local state for one application; key-value may be missing.
LocalStates ==
  {[id |-> i, has |-> FALSE, kv |-> <<>>] : i \in 1..(MaxId + 1)} \cup
  {[id |-> i, has |-> TRUE, kv |-> l] : i \in 1..(MaxId + 1), l \in StateLists(1)}
\* What the node answers to a query; has: whether the list read is there.
NoAnswer == [has |-> FALSE, items |-> <<>>, apps |-> <<>>]
Answers(op) ==
  CASE op = "sc.readGlobalState" ->
         {NoAnswer} \cup {[NoAnswer EXCEPT !.has = TRUE, !.items = l] :
                            l \in StateLists(MaxItems)}
    [] op = "sc.readLocalState" ->
         {NoAnswer} \cup {[NoAnswer EXCEPT !.has = TRUE, !.apps = l] :
                            l \in UNION {[1..m -> LocalStates] : m \in 0..MaxItems}}
    [] OTHER -> {NoAnswer}

\* A value of the object a reader returns: text or a number.
StateValue(type, text, n) == [type |-> type, text |-> text, n |-> n]
\* obj[key] = value
Assign(obj, key, value) ==
  [k \in DOMAIN obj \cup {key} |-> IF k = key THEN value ELSE obj[k]]

\* An entry read as a number whatever its type.
GlobalValueAsNumber(item) == StateValue("number", <<>>, item.value.uint)
\* The value readGlobalState gives one entry.
GlobalValue(item) ==
  IF item.value.type = 1
  THEN StateValue("string", Utf8Decode(Base64Decode(item.value.bytes)), 0)
  ELSE StateValue("number", <<>>, item.value.uint)
\* The value readLocalState gives one entry.
LocalValue(item) ==
  IF item.value.type = 1
  THEN StateValue("string", Utf8Decode(Base64Decode(item.value.bytes)), 0)
  ELSE StateValue("number", <<>>, item.value.uint)

RECURSIVE GlobalLoop(_, _)
\* for (const stateItem of application.params['global-state'])
GlobalLoop(items, globalState) ==
  IF items = <<>> THEN globalState
  ELSE GlobalLoop(Tail(items),
                  Assign(globalState, Utf8Decode(Base64Decode(Head(items).key)),
                         GlobalValue(Head(items))))
RECURSIVE LocalLoop(_, _)
\* for (const stateItem of appLocalState['key-value'])
LocalLoop(items, localState) ==
  IF items = <<>> THEN localState
  ELSE LocalLoop(Tail(items),
                 Assign(localState, Utf8Decode(Base64Decode(Head(items).key)),
                        LocalValue(Head(items))))

\* The object readGlobalState builds from the application the node answered.
GlobalState(answer) == IF answer.has THEN GlobalLoop(answer.items, <<>>) ELSE <<>>
\* A reader that takes the account's first application whatever its id.
LocalStateAnyApp(answer, appId) ==
  IF answer.has /\ Len(answer.apps) > 0 /\ answer.apps[1].has
  THEN LocalLoop(answer.apps[1].kv, <<>>)
  ELSE <<>>
\* The object readLocalState builds: the entries of the first application of
\* the account with the id asked for, if there is one with a key-value list.
LocalState(answer, appId) ==
  IF answer.has /\ \E i \in 1..Len(answer.apps) : answer.apps[i].id = appId
  THEN LET i == CHOOSE i \in 1..Len(answer.apps) :
                  /\ answer.apps[i].id = appId
                  /\ \A j \in 1..(i - 1) : answer.apps[j].id # appId
       IN IF answer.apps[i].has THEN LocalLoop(answer.apps[i].kv, <<>>) ELSE <<>>
  ELSE <<>>

\* An invocation: where it is in its body, its locals, the calls it has made.
Idle ==
  [status |-> "idle", op |-> "none", args |-> NoArgs, pc |-> 0, pending |-> FALSE,
   clients |-> 0, sp |-> 0, compiled |-> <<>>, txns |-> <<>>, signed |-> <<>>,
   txId |-> 0, waited |-> 0, confirmed |-> NoRecord, lsig |-> NoLsig,
   answer |-> NoAnswer, err |-> "none", trace |-> <<>>, result |-> NoResult]

\* Bodies with two statements the other way round, or one left out.
Swapped(body, x, y) ==
  IF \E i, j \in 1..Len(body) : body[i] = x /\ body[j] = y
  THEN [i \in 1..Len(body) |->
          IF body[i] = x THEN y ELSE IF body[i] = y THEN x ELSE body[i]]
  ELSE body
Without(body, x) ==
  LET Keep(st) == st # x IN SelectSeq(body, Keep)
\* The request goes to the node before it is signed.
StepSubmitUnsigned(r) ==
  IF r.status = "running"
  THEN Swapped(Program(r.op), "sign", "sendRawTransaction")[r.pc] ELSE "none"
\* The requests are signed before they are grouped.
StepSignBeforeGroup(r) ==
  IF r.status = "running"
  THEN Swapped(Program(r.op), "assignGroupID", "sign")[r.pc] ELSE "none"
\* The requests are never grouped.
StepUngrouped(r) ==
  IF r.status = "running"
  THEN Without(Program(r.op), "assignGroupID")[r.pc] ELSE "none"

\* The clear program is compiled before the approval program.
StepClearFirst(r) ==
  IF r.status = "running"
  THEN Swapped(Program(r.op), "compileApproval", "compileClear")[r.pc] ELSE "none"

\* The statement an invocation is at.
Step(r) == IF r.status = "running" THEN Program(r.op)[r.pc] ELSE "none"
Advance(r) == [r EXCEPT !.pc = @ + 1, !.pending = FALSE]
Logged(r, evs) == [r EXCEPT !.trace = @ \o evs]
\* A failed statement that is simply tried again.
ThrowAndRetry(r, e) == [r EXCEPT !.pending = FALSE]

\* A statement of the try block throws e: control goes to the catch block.
Throw(r, e) == [r EXCEPT !.status = "thrown", !.err = e, !.pending = FALSE]

\* A catch block that raises a new error around the one it caught.
CatchBlockWrapped(op, e) ==
  [trace |-> <<ErrEv("console.error", ErrorContext(op), e), ErrEv("throw", "", "wrapped")>>,
   result |-> Raised("wrapped")]

\* catch (error) { console.error(context, error); throw error; }
CatchBlock(op, e) ==
  [trace |-> <<ErrEv("console.error", ErrorContext(op), e), ErrEv("throw", "", e)>>,
   result |-> Raised(e)]

\* What the node reports for an included request.
ConfirmationOf(r) ==
  [confirmedRound |-> r.waited + 1,
   assetIndex |-> IF r.txns # <<>> /\ r.txns[1].maker = "makeAssetCreateTxnWithSuggestedParamsFromObject"
                  THEN 10 + r.txId ELSE 0,
   applicationIndex |-> IF r.txns # <<>> /\ r.txns[1].maker = "makeApplicationCreateTxnFromObject"
                        THEN 20 + r.txId ELSE 0,
   txId |-> r.txId]

\* Every operation handing back the confirmation record itself.
ReturnRecordAlways(op, r) == [NoValue EXCEPT !.what = "confirmedTxn", !.rec = r.confirmed]

\* The value each operation returns once its last call has answered.
ReturnValue(op, r) ==
  CASE op \in {"tx.createAsset", "ex.createAsset"} ->
         [NoValue EXCEPT !.what = "assetId", !.n = r.confirmed.assetIndex]
    [] op \in {"sc.createApplication", "ex.createApplication"} ->
         [NoValue EXCEPT !.what = "appId", !.n = r.confirmed.applicationIndex]
    [] op \in ComposerOps ->
         [NoValue EXCEPT !.what = "composerResult", !.rec = r.confirmed]
    [] op \in CompileOps ->
         [NoValue EXCEPT !.what = "programBytes", !.program = r.compiled[1]]
    [] op \in LogicSigOps ->
         [NoValue EXCEPT !.what = "logicSigAccount", !.program = r.lsig.program.bytes,
                         !.sig = r.lsig.sig, !.address = LogicSigAddress(r.lsig)]
    [] op = "sc.readGlobalState" ->
         [NoValue EXCEPT !.what = "state", !.state = GlobalState(r.answer)]
    [] op = "sc.readLocalState" ->
         [NoValue EXCEPT !.what = "state",
                         !.state = LocalState(r.answer, r.args.appId)]
    [] op \in ReadOps -> [NoValue EXCEPT !.what = "accountInfo"]
    [] OTHER -> [NoValue EXCEPT !.what = "confirmedTxn", !.rec = r.confirmed]

\* A caller starts an asynchronous operation.
Invoke(p) ==
  /\ inv[p].status = "idle"
  /\ \E op \in AsyncOps : \E a \in Inputs(op) :
       inv' = [inv EXCEPT ![p] =
                 [Idle EXCEPT !.status = "running", !.op = op, !.args = a, !.pc = 1,
                              !.trace = <<Ev("call", op, 0, 0)>>]]
  /\ UNCHANGED <<procs, heap, wallet, recovered, msigCalls>>

\* One client handle kept for all invocations: opening it shows in each.
GetAlgodClientShared(p) ==
  /\ Step(inv[p]) = "getAlgodClient"
  /\ inv' = [q \in DOMAIN inv |->
               IF q = p
               THEN Advance(Logged([inv[q] EXCEPT !.clients = @ + 1],
                                   <<Ev("new Algodv2", "", 0, 0)>>))
               ELSE [inv[q] EXCEPT !.clients = @ + 1]]
  /\ UNCHANGED <<procs, heap, wallet, recovered, msigCalls>>

\* getAlgodClient(), or new algosdk.Algodv2(...) in place: a client handle of
\* the invocation's own, with the empty token.
GetAlgodClient(p) ==
  /\ Step(inv[p]) = "getAlgodClient"
  /\ inv' = [inv EXCEPT ![p] =
               Advance(Logged([@ EXCEPT !.clients = @ + 1],
                              <<Ev("new Algodv2", "", 0, 0)>>))]
  /\ UNCHANGED <<procs, heap, wallet, recovered, msigCalls>>

\* The request a network call sends; the caller is suspended from here on.
RequestEvents(r) ==
  LET st == Step(r)
  IN CASE st \in CompileCalls ->
            <<Ev("call", "compileProgram", 0, 0), Ev("new Algodv2", "", 0, 0),
              Ev("request", "compile", 0, 0)>>
       [] st = "sendRawTransaction" -> <<Ev("request", st, Len(r.signed), 0)>>
       [] st = "waitForConfirmation" ->
            <<Ev("request", st, r.txId, WaitRounds(r.op, r.args))>>
       [] st = "execute" -> <<Ev("request", st, Len(r.txns), WaitRounds(r.op, r.args))>>
       [] OTHER -> <<Ev("request", st, 0, 0)>>

\* A submission that is sent and not awaited.
RequestNotAwaited(p) ==
  /\ Step(inv[p]) \in NetSteps
  /\ ~inv[p].pending
  /\ LET r == inv[p]
         opened == IF Step(r) \in CompileCalls THEN 1 ELSE 0
     IN inv' = [inv EXCEPT ![p] =
                  IF Step(r) = "sendRawTransaction"
                  THEN Advance(Logged(r, RequestEvents(r)))
                  ELSE Logged([r EXCEPT !.pending = TRUE, !.waited = 0,
                                        !.clients = @ + opened],
                              RequestEvents(r))]
  /\ UNCHANGED <<procs, heap, wallet, recovered, msigCalls>>

\* await: the call is sent and the invocation waits for its answer.
Request(p) ==
  /\ Step(inv[p]) \in NetSteps
  /\ ~inv[p].pending
  /\ LET r == inv[p]
         opened == IF Step(r) \in CompileCalls THEN 1 ELSE 0
     IN inv' = [inv EXCEPT ![p] =
                  Logged([r EXCEPT !.pending = TRUE, !.waited = 0,
                                   !.clients = @ + opened],
                         RequestEvents(r))]
  /\ UNCHANGED <<procs, heap, wallet, recovered, msigCalls>>

\* The node or the transport fails the pending call; a failed call into
\* compileProgram passes through that function's own catch block first.
NetFail(p) ==
  /\ Step(inv[p]) \in NetSteps
  /\ inv[p].pending
  /\ \E e \in NetErrors :
       inv' = [inv EXCEPT ![p] =
                 Throw(Logged(@, <<ErrEv("failed", Step(@), e)>>
                                 \o IF Step(@) \in CompileCalls
                                    THEN CatchBlock("sc.compileProgram", e).trace
                                    ELSE <<>>), e)]
  /\ UNCHANGED <<procs, heap, wallet, recovered, msigCalls>>

\* The node answers the parameter fetch.
ParamsResponse(p) ==
  /\ Step(inv[p]) = "getTransactionParams"
  /\ inv[p].pending
  /\ \E v \in ParamValues :
       inv' = [inv EXCEPT ![p] =
                 Advance(Logged([@ EXCEPT !.sp = v],
                                <<Ev("response", "getTransactionParams", v, 0)>>))]
  /\ UNCHANGED <<procs, heap, wallet, recovered, msigCalls>>

\* The node answers a compile request: compileProgram decodes the result and
\* returns the program bytes.
CompileResponse(p) ==
  /\ Step(inv[p]) \in CompileCalls \cup {"compile"}
  /\ inv[p].pending
  /\ LET r == inv[p]
         source == CASE Step(r) = "compileApproval" -> r.args.approvalProgram
                     [] Step(r) = "compileClear" -> r.args.clearProgram
                     [] OTHER -> r.args.programSource
     IN inv' = [inv EXCEPT ![p] =
                  Advance(Logged([r EXCEPT !.compiled =
                                     Append(@, Base64Decode(CompiledResult(source)))],
                                 <<Ev("response", "compile", 0, 0)>>))]
  /\ UNCHANGED <<procs, heap, wallet, recovered, msigCalls>>

\* A construction that consults a record of opt-ins, which is empty, before
\* a call to or a close-out from an application.
ConstructIfOptedIn(p) ==
  /\ Step(inv[p]) = "construct"
  /\ LET r == inv[p]
         fs == Fields(r.op, r.args, r.sp, r.compiled)
     IN inv' = [inv EXCEPT ![p] =
                  IF r.op \in {"sc.callApplication", "sc.closeOutFromApplication"}
                  THEN Throw(r, "not opted in")
                  ELSE IF \E i \in 1..Len(fs) : ~NoTypeError(fs[i])
                  THEN Throw(r, "TypeError")
                  ELSE IF \E i \in 1..Len(fs) : ~FieldsPresent(fs[i])
                  THEN Throw(r, "sdk: bad field")
                  ELSE Advance(Logged([r EXCEPT !.txns =
                                          [i \in 1..Len(fs) |-> SdkMakeTxn(fs[i])]],
                                      [i \in 1..Len(fs) |-> Ev("make", fs[i].maker, i, 0)]))]
  /\ UNCHANGED <<procs, heap, wallet, recovered, msigCalls>>

\* A construction that turns down a request of amount zero.
ConstructIfPositive(p) ==
  /\ Step(inv[p]) = "construct"
  /\ LET r == inv[p]
         fs == Fields(r.op, r.args, r.sp, r.compiled)
     IN inv' = [inv EXCEPT ![p] =
                  IF r.args.amount = 0
                  THEN Throw(r, "amount must be positive")
                  ELSE IF \E i \in 1..Len(fs) : ~NoTypeError(fs[i])
                  THEN Throw(r, "TypeError")
                  ELSE IF \E i \in 1..Len(fs) : ~FieldsPresent(fs[i])
                  THEN Throw(r, "sdk: bad field")
                  ELSE Advance(Logged([r EXCEPT !.txns =
                                          [i \in 1..Len(fs) |-> SdkMakeTxn(fs[i])]],
                                      [i \in 1..Len(fs) |-> Ev("make", fs[i].maker, i, 0)]))]
  /\ UNCHANGED <<procs, heap, wallet, recovered, msigCalls>>

\* The statements between the parameter fetch and the signing: the argument
\* conversions and the SDK's make...Txn call, which throw on a bad argument.
Construct(p) ==
  /\ Step(inv[p]) = "construct"
  /\ LET r == inv[p]
         fs == Fields(r.op, r.args, r.sp, r.compiled)
     IN inv' = [inv EXCEPT ![p] =
                  IF \E i \in 1..Len(fs) : ~NoTypeError(fs[i])
                  THEN Throw(r, "TypeError")
                  ELSE IF \E i \in 1..Len(fs) : ~FieldsPresent(fs[i])
                  THEN Throw(r, "sdk: bad field")
                  ELSE Advance(Logged([r EXCEPT !.txns =
                                          [i \in 1..Len(fs) |-> SdkMakeTxn(fs[i])]],
                                      [i \in 1..Len(fs) |-> Ev("make", fs[i].maker, i, 0)]))]
  /\ UNCHANGED <<procs, heap, wallet, recovered, msigCalls>>

\* algosdk.assignGroupID(txns)
AssignGroup(p) ==
  /\ Step(inv[p]) = "assignGroupID"
  /\ LET r == inv[p]
     IN inv' = [inv EXCEPT ![p] =
                  IF AssignGroupIDThrows(r.txns)
                  THEN Throw(Logged(r, <<Ev("assignGroupID", "", 0, 0)>>),
                             "sdk: group of zero transactions")
                  ELSE Advance(Logged([r EXCEPT !.txns = AssignGroupID(r.txns)],
                                      <<Ev("assignGroupID", "", Len(r.txns),
                                           ComputeGroupID(r.txns))>>))]
  /\ UNCHANGED <<procs, heap, wallet, recovered, msigCalls>>

\* The signing statements.
Sign(p) ==
  /\ Step(inv[p]) = "sign"
  /\ LET r == inv[p]
         res == SignAll(r.op, r.args, r.txns)
     IN inv' = [inv EXCEPT ![p] =
                  IF res.threw
                  THEN Throw(r, res.err)
                  ELSE Advance(Logged([r EXCEPT !.signed = res.signed],
                                      [i \in 1..Len(res.keys) |->
                                         Ev("sign", "", res.keys[i],
                                            r.txns[IF i <= Len(r.txns) THEN i ELSE 1].group)]))]
  /\ UNCHANGED <<procs, heap, wallet, recovered, msigCalls>>

\* The node accepts the submission and returns its identifier, which the
\* code reads from the answer as txId (the SDK's answer is taken to carry it
\* under that name).
SubmitResponse(p) ==
  /\ Step(inv[p]) = "sendRawTransaction"
  /\ inv[p].pending
  /\ \E id \in TxIds :
       inv' = [inv EXCEPT ![p] =
                 Advance(Logged([@ EXCEPT !.txId = id],
                                <<Ev("response", "sendRawTransaction", id, 0)>>))]
  /\ UNCHANGED <<procs, heap, wallet, recovered, msigCalls>>

\* A wait whose count of rounds starts again instead of running out.
WaitPollNoBudget(p) ==
  /\ Step(inv[p]) = "waitForConfirmation"
  /\ inv[p].pending
  /\ LET r == inv[p]
         budget == WaitRounds(r.op, r.args)
     IN \/ inv' = [inv EXCEPT ![p] =
                     Advance(Logged([r EXCEPT !.confirmed = ConfirmationOf(r)],
                                    <<Ev("response", "waitForConfirmation",
                                         r.txId, r.waited + 1)>>))]
        \/ inv' = [inv EXCEPT ![p] =
                     Throw(Logged(r, <<ErrEv("failed", "waitForConfirmation",
                                             "transaction rejected")>>),
                           "transaction rejected")]
        \/ inv' = [inv EXCEPT ![p].waited = (@ + 1) % budget]
  /\ UNCHANGED <<procs, heap, wallet, recovered, msigCalls>>

\* One round of algosdk.waitForConfirmation: the request is confirmed, or the
\* pool rejected it, or the round passes and the budget may be used up.
WaitPoll(p) ==
  /\ Step(inv[p]) = "waitForConfirmation"
  /\ inv[p].pending
  /\ LET r == inv[p]
         budget == WaitRounds(r.op, r.args)
     IN \/ /\ r.waited < budget
           /\ inv' = [inv EXCEPT ![p] =
                        Advance(Logged([r EXCEPT !.confirmed = ConfirmationOf(r)],
                                       <<Ev("response", "waitForConfirmation",
                                            r.txId, r.waited + 1)>>))]
        \/ /\ r.waited < budget
           /\ inv' = [inv EXCEPT ![p] =
                        Throw(Logged(r, <<ErrEv("failed", "waitForConfirmation",
                                                "transaction rejected")>>),
                              "transaction rejected")]
        \/ /\ r.waited < budget
           /\ inv' = [inv EXCEPT ![p].waited = @ + 1]
        \/ /\ r.waited >= budget
           /\ inv' = [inv EXCEPT ![p] =
                        Throw(Logged(r, <<ErrEv("failed", "waitForConfirmation",
                                                "not confirmed in time")>>),
                              "not confirmed in time")]
  /\ UNCHANGED <<procs, heap, wallet, recovered, msigCalls>>

\* new algosdk.ABIContract({... methods: [{name: methodName, args: [one string],
\* ...}]}) and contract.getMethodByName(methodName): throws without a name.
GetMethodByName(p) ==
  /\ Step(inv[p]) = "getMethodByName"
  /\ LET r == inv[p]
     IN inv' = [inv EXCEPT ![p] =
                  IF r.args.methodName = ""
                  THEN Throw(r, "sdk: invalid method")
                  ELSE Advance(Logged(r, <<Ev("getMethodByName", r.args.methodName, 0, 0)>>))]
  /\ UNCHANGED <<procs, heap, wallet, recovered, msigCalls>>

\* A composer that is given the same call twice.
AddMethodCallTwice(p) ==
  /\ Step(inv[p]) = "addMethodCall"
  /\ LET r == inv[p]
         call == [AppCall("addMethodCall", "NoOpOC", r.args.sender.addr, r.args.appId, r.sp)
                    EXCEPT !.appArgs = ConvertedArgs(r.args.appArgs)]
     IN inv' = [inv EXCEPT ![p] =
                  IF Len(r.args.appArgs) # 1
                  THEN Throw(r, "sdk: wrong number of method arguments")
                  ELSE Advance(Logged([r EXCEPT !.txns = <<SdkMakeTxn(call), SdkMakeTxn(call)>>],
                                      <<Ev("new AtomicTransactionComposer", "", 0, 0),
                                        Ev("addMethodCall", r.args.methodName, 1, 0),
                                        Ev("addMethodCall", r.args.methodName, 2, 0)>>))]
  /\ UNCHANGED <<procs, heap, wallet, recovered, msigCalls>>

\* new algosdk.AtomicTransactionComposer() and atc.addMethodCall({...}): throws
\* unless the arguments are as many as the method declares (one).
AddMethodCall(p) ==
  /\ Step(inv[p]) = "addMethodCall"
  /\ LET r == inv[p]
         call == [AppCall("addMethodCall", "NoOpOC", r.args.sender.addr, r.args.appId, r.sp)
                    EXCEPT !.appArgs = ConvertedArgs(r.args.appArgs)]
     IN inv' = [inv EXCEPT ![p] =
                  IF Len(r.args.appArgs) # 1
                  THEN Throw(r, "sdk: wrong number of method arguments")
                  ELSE Advance(Logged([r EXCEPT !.txns = <<SdkMakeTxn(call)>>],
                                      <<Ev("new AtomicTransactionComposer", "", 0, 0),
                                        Ev("addMethodCall", r.args.methodName, 1, 0)>>))]
  /\ UNCHANGED <<procs, heap, wallet, recovered, msigCalls>>

\* atc.execute(algodClient, rounds) answers: the composer has signed the group
\* with the call's signer, submitted it and waited for it.
ExecuteResponse(p) ==
  /\ Step(inv[p]) = "execute"
  /\ inv[p].pending
  /\ \E id \in TxIds :
       LET r == inv[p]
       IN inv' = [inv EXCEPT ![p] =
                    Advance(Logged([r EXCEPT
                                      !.signed = [i \in 1..Len(r.txns) |->
                                                    SignTxn(r.txns[i], r.args.sender.sk)],
                                      !.txId = id,
                                      !.confirmed = [NoRecord EXCEPT !.confirmedRound = 1,
                                                                     !.txId = id]],
                                   <<Ev("response", "execute", id, 0)>>))]
  /\ UNCHANGED <<procs, heap, wallet, recovered, msigCalls>>

\* new algosdk.LogicSigAccount(programBytes, args)
NewLogicSigAccount(p) ==
  /\ Step(inv[p]) = "newLogicSigAccount"
  /\ inv' = [inv EXCEPT ![p] =
               Advance(Logged([@ EXCEPT !.lsig = LogicSigAccount(inv[p].compiled[1], <<>>)],
                              <<Ev("new LogicSigAccount", "", 0, 0)>>))]
  /\ UNCHANGED <<procs, heap, wallet, recovered, msigCalls>>

\* A delegation that leaves the program unsigned.
SignLogicSigLeftOut(p) ==
  /\ Step(inv[p]) = "signLogicSig"
  /\ inv' = [inv EXCEPT ![p] = Advance(@)]
  /\ UNCHANGED <<procs, heap, wallet, recovered, msigCalls>>

\* logicSigAccount.sign(delegatingAccount.sk)
SignLogicSig(p) ==
  /\ Step(inv[p]) = "signLogicSig"
  /\ LET r == inv[p]
     IN inv' = [inv EXCEPT ![p] =
                  Advance(Logged([r EXCEPT !.lsig = LogicSigSign(r.lsig, r.args.sender.sk)],
                                 <<Ev("lsig.sign", "", r.args.sender.sk[2], 0)>>))]
  /\ UNCHANGED <<procs, heap, wallet, recovered, msigCalls>>

\* A reader that may put its question to the node a second time.
QueryResponseAsksAgain(p) ==
  /\ Step(inv[p]) = "query"
  /\ inv[p].pending
  /\ \E answer \in Answers(inv[p].op) :
       \/ inv' = [inv EXCEPT ![p] =
                    Advance(Logged([@ EXCEPT !.answer = answer],
                                   <<Ev("response", "query", 0, 0)>>))]
       \/ /\ Len(inv[p].trace) < 4
          /\ inv' = [inv EXCEPT ![p] =
                       Logged([@ EXCEPT !.answer = answer],
                              <<Ev("response", "query", 0, 0),
                                Ev("request", "query", 0, 0)>>)]
  /\ UNCHANGED <<procs, heap, wallet, recovered, msigCalls>>

\* The node answers a query (application or account information).
QueryResponse(p) ==
  /\ Step(inv[p]) = "query"
  /\ inv[p].pending
  /\ \E answer \in Answers(inv[p].op) :
       inv' = [inv EXCEPT ![p] =
                 Advance(Logged([@ EXCEPT !.answer = answer],
                                <<Ev("response", "query", 0, 0)>>))]
  /\ UNCHANGED <<procs, heap, wallet, recovered, msigCalls>>

\* The return statement at the end of the try block.
Return(p) ==
  /\ Step(inv[p]) = "return"
  /\ LET r == inv[p]
     IN inv' = [inv EXCEPT ![p] =
                  Logged([r EXCEPT !.status = "returned",
                                   !.result = Returned(ReturnValue(r.op, r))],
                         <<Ev("return", "", 0, 0)>>)]
  /\ UNCHANGED <<procs, heap, wallet, recovered, msigCalls>>

\* The catch block of an asynchronous operation.
Catch(p) ==
  /\ inv[p].status = "thrown"
  /\ LET r == inv[p]
         c == CatchBlock(r.op, r.err)
     IN inv' = [inv EXCEPT ![p] =
                  Logged([r EXCEPT !.status = "raised", !.result = c.result], c.trace)]
  /\ UNCHANGED <<procs, heap, wallet, recovered, msigCalls>>

\* The caller takes the outcome and drops it.
Finish(p) ==
  /\ inv[p].status \in {"returned", "raised"}
  /\ inv' = [inv EXCEPT ![p] = Idle]
  /\ UNCHANGED <<procs, heap, wallet, recovered, msigCalls>>

\* ------------------------------------------------- the synchronous helpers

MaxCalls == 2

\* A phrase derived from another key than the returned account's.
generateAccountOtherKey(seed) ==
  [account |-> SdkGenerateAccount(seed),
   mnemonic |-> secretKeyToMnemonic(SdkGenerateAccount((seed % NSeeds) + 1).sk)]

\* generateAccount(): the account and the phrase derived from its key.
generateAccount(seed) ==
  LET account == SdkGenerateAccount(seed)
  IN [account |-> account, mnemonic |-> secretKeyToMnemonic(account.sk)]

\* recoverAccount(mnemonic): the SDK's error goes up as it is.
recoverAccount(mnemonic) ==
  IF MnemonicValid(mnemonic)
  THEN [threw |-> FALSE, err |-> "none", account |-> mnemonicToSecretKey(mnemonic)]
  ELSE [threw |-> TRUE, err |-> "sdk: bad mnemonic", account |-> NoAccount]

\* An address remembered from the call before, whatever that was called with.
createMultisigAccountCached(addresses, threshold) ==
  LET multisigParams == [version |-> 1, threshold |-> threshold, addrs |-> addresses]
      valid == MultisigParamsValid(Resolve(multisigParams))
  IN [threw |-> ~valid, err |-> IF valid THEN "none" ELSE "sdk: bad multisig parameters",
      multisigParams |-> multisigParams,
      multisigAddress |->
        IF ~valid THEN UndefinedAddr
        ELSE IF msigCalls # <<>> /\ ~msigCalls[Len(msigCalls)].threw
        THEN msigCalls[Len(msigCalls)].address
        ELSE multisigAddress(Resolve(multisigParams))]

\* createMultisigAccount(addresses, threshold): the descriptor keeps the
\* caller's array itself; the address is derived from what it holds now.
createMultisigAccount(addresses, threshold) ==
  LET multisigParams == [version |-> 1, threshold |-> threshold, addrs |-> addresses]
  IN IF MultisigParamsValid(Resolve(multisigParams))
     THEN [threw |-> FALSE, err |-> "none", multisigParams |-> multisigParams,
           multisigAddress |-> multisigAddress(Resolve(multisigParams))]
     ELSE [threw |-> TRUE, err |-> "sdk: bad multisig parameters",
           multisigParams |-> multisigParams, multisigAddress |-> UndefinedAddr]

\* A helper that opens a client and asks the node.
LocalCallsWithClient(op) ==
  <<Ev("new Algodv2", "", 0, 0), Ev("request", "status", 0, 0), Ev("sdk", "", 0, 0)>>

\* The calls a synchronous helper makes, in order.
LocalCalls(op) ==
  CASE op \in GenerateOps ->
         <<Ev("sdk", "generateAccount", 0, 0), Ev("sdk", "secretKeyToMnemonic", 0, 0)>>
    [] op \in RecoverOps -> <<Ev("sdk", "mnemonicToSecretKey", 0, 0)>>
    [] op \in MultisigOps -> <<Ev("sdk", "multisigAddress", 0, 0)>>
    [] OTHER -> <<>>

\* A helper has run to its end: it has no try block, so an SDK error leaves it
\* as it was thrown, with nothing logged.
LocalDone(op, a, threw, err, val) ==
  LET calls == LocalCalls(op)
      base == [Idle EXCEPT !.op = op, !.args = a,
                 !.clients = Cardinality({i \in 1..Len(calls) : calls[i].k = "new Algodv2"})]
  IN IF threw
     THEN [base EXCEPT !.status = "raised", !.err = err, !.result = Raised(err),
                       !.trace = <<Ev("call", op, 0, 0)>> \o calls
                                 \o <<ErrEv("throw", "", err)>>]
     ELSE [base EXCEPT !.status = "returned", !.result = Returned(val),
                       !.trace = <<Ev("call", op, 0, 0)>> \o calls
                                 \o <<Ev("return", "", 0, 0)>>]

GenerateAccount(p) ==
  /\ inv[p].status = "idle"
  /\ \E op \in GenerateOps : \E a \in Inputs(op) :
       LET g == generateAccount(a.seed)
       IN inv' = [inv EXCEPT ![p] =
                    LocalDone(op, a, FALSE, "none",
                              [NoValue EXCEPT !.what = "accountAndMnemonic",
                                              !.account = g.account,
                                              !.mnemonic = g.mnemonic])]
  /\ UNCHANGED <<procs, heap, wallet, recovered, msigCalls>>

RecoverAccount(p) ==
  /\ inv[p].status = "idle"
  /\ \E op \in RecoverOps : \E a \in Inputs(op) :
       LET g == recoverAccount(a.mnemonic)
       IN inv' = [inv EXCEPT ![p] =
                    LocalDone(op, a, g.threw, g.err,
                              [NoValue EXCEPT !.what = "account", !.account = g.account])]
  /\ UNCHANGED <<procs, heap, wallet, recovered, msigCalls>>

CreateMultisigAccount(p) ==
  /\ inv[p].status = "idle"
  /\ \E op \in MultisigOps : \E a \in Inputs(op) :
       LET g == createMultisigAccount(a.addresses, a.threshold)
       IN inv' = [inv EXCEPT ![p] =
                    LocalDone(op, a, g.threw, g.err,
                              [NoValue EXCEPT !.what = "multisig",
                                              !.params = g.multisigParams,
                                              !.address = g.multisigAddress])]
  /\ UNCHANGED <<procs, heap, wallet, recovered, msigCalls>>

\* ------------------------------------------------------------ the caller

\* The caller keeps what generateAccount returned.
KeepAccount(p) ==
  /\ inv[p].status = "returned"
  /\ inv[p].op \in GenerateOps
  /\ wallet' = wallet \cup {[account |-> inv[p].result.val.account,
                             mnemonic |-> inv[p].result.val.mnemonic]}
  /\ inv' = [inv EXCEPT ![p] = Idle]
  /\ UNCHANGED <<procs, heap, recovered, msigCalls>>

\* The caller keeps the outcome of its last recoverAccount call.
KeepRecovered(p) ==
  /\ inv[p].status \in {"returned", "raised"}
  /\ inv[p].op \in RecoverOps
  /\ recovered' = [called |-> TRUE, mnemonic |-> inv[p].args.mnemonic,
                   threw |-> inv[p].status = "raised",
                   account |-> inv[p].result.val.account]
  /\ inv' = [inv EXCEPT ![p] = Idle]
  /\ UNCHANGED <<procs, heap, wallet, msigCalls>>

\* The caller writes to one of its address arrays; the helpers are
\* synchronous, so this happens between calls.
SetAddresses ==
  /\ \A p \in procs : inv[p].status = "idle"
  /\ \E r \in Refs : \E l \in AddrLists : heap' = [heap EXCEPT ![r] = l]
  /\ UNCHANGED <<procs, inv, wallet, recovered, msigCalls>>

\* The caller notes what it called createMultisigAccount with and what came back.
KeepMultisig(p) ==
  /\ inv[p].status \in {"returned", "raised"}
  /\ inv[p].op \in MultisigOps
  /\ Len(msigCalls) < MaxCalls
  /\ msigCalls' = Append(msigCalls,
                         [addresses |-> heap[inv[p].args.addresses],
                          threshold |-> inv[p].args.threshold,
                          threw |-> inv[p].status = "raised",
                          params |-> inv[p].result.val.params,
                          address |-> inv[p].result.val.address])
  /\ inv' = [inv EXCEPT ![p] = Idle]
  /\ UNCHANGED <<procs, heap, wallet, recovered>>

\* The caller drops its oldest note.
ForgetCall ==
  /\ msigCalls # <<>>
  /\ msigCalls' = Tail(msigCalls)
  /\ UNCHANGED <<procs, inv, heap, wallet, recovered>>

\* ------------------------------------------------------- specifications

NProcs == 1
ProcIds == 1..NProcs

NeverRecovered == [called |-> FALSE, mnemonic |-> <<>>, threw |-> FALSE, account |-> NoAccount]
InitialHeap == [r \in Refs |-> <<Address("pk", <<PubKey(1)>>), Address("pk", <<PubKey(2)>>)>>]

Init ==
  /\ procs = {1}
  /\ inv = [p \in procs |-> Idle]
  /\ heap = InitialHeap
  /\ wallet = {}
  /\ recovered = NeverRecovered
  /\ msigCalls = <<>>

\* Every operation, one invocation at a time.
Next ==
  \/ \E p \in ProcIds : p \in procs /\ Invoke(p)
  \/ \E p \in ProcIds : p \in procs /\ GetAlgodClient(p)
  \/ \E p \in ProcIds : p \in procs /\ Request(p)
  \/ \E p \in ProcIds : p \in procs /\ NetFail(p)
  \/ \E p \in ProcIds : p \in procs /\ ParamsResponse(p)
  \/ \E p \in ProcIds : p \in procs /\ CompileResponse(p)
  \/ \E p \in ProcIds : p \in procs /\ Construct(p)
  \/ \E p \in ProcIds : p \in procs /\ AssignGroup(p)
  \/ \E p \in ProcIds : p \in procs /\ Sign(p)
  \/ \E p \in ProcIds : p \in procs /\ SubmitResponse(p)
  \/ \E p \in ProcIds : p \in procs /\ WaitPoll(p)
  \/ \E p \in ProcIds : p \in procs /\ GetMethodByName(p)
  \/ \E p \in ProcIds : p \in procs /\ AddMethodCall(p)
  \/ \E p \in ProcIds : p \in procs /\ ExecuteResponse(p)
  \/ \E p \in ProcIds : p \in procs /\ NewLogicSigAccount(p)
  \/ \E p \in ProcIds : p \in procs /\ SignLogicSig(p)
  \/ \E p \in ProcIds : p \in procs /\ QueryResponse(p)
  \/ \E p \in ProcIds : p \in procs /\ Return(p)
  \/ \E p \in ProcIds : p \in procs /\ Catch(p)
  \/ \E p \in ProcIds : p \in procs /\ Finish(p)
  \/ \E p \in ProcIds : p \in procs /\ GenerateAccount(p)
  \/ \E p \in ProcIds : p \in procs /\ RecoverAccount(p)
  \/ \E p \in ProcIds : p \in procs /\ CreateMultisigAccount(p)

Spec == Init /\ [][Next]_vars

\* The next statement of invocation p, or the answer it is suspended for.
Progress(p) ==
  \/ GetAlgodClient(p) \/ Request(p) \/ NetFail(p) \/ ParamsResponse(p)
  \/ CompileResponse(p) \/ Construct(p) \/ AssignGroup(p) \/ Sign(p)
  \/ SubmitResponse(p) \/ WaitPoll(p) \/ GetMethodByName(p) \/ AddMethodCall(p)
  \/ ExecuteResponse(p) \/ NewLogicSigAccount(p) \/ SignLogicSig(p)
  \/ QueryResponse(p) \/ Return(p) \/ Catch(p)

\* Every operation, where the runtime runs each invocation's next statement,
\* the network answers each call and the rounds of a wait keep passing.
SpecLive == Init /\ [][Next]_vars /\ \A p \in ProcIds : WF_vars(p \in procs /\ Progress(p))

\* Accounts and phrases: the caller generates accounts and recovers phrases.
NextKeys ==
  \/ \E p \in ProcIds : p \in procs /\ GenerateAccount(p)
  \/ \E p \in ProcIds : p \in procs /\ RecoverAccount(p)
  \/ \E p \in ProcIds : p \in procs /\ KeepAccount(p)
  \/ \E p \in ProcIds : p \in procs /\ KeepRecovered(p)

SpecKeys == Init /\ [][NextKeys]_vars

\* Multisig descriptors: the caller derives addresses from its arrays.
NextMultisig ==
  \/ SetAddresses
  \/ ForgetCall
  \/ \E p \in ProcIds : p \in procs /\ CreateMultisigAccount(p)
  \/ \E p \in ProcIds : p \in procs /\ KeepMultisig(p)

SpecMultisig == Init /\ [][NextMultisig]_vars

\* Two callers that start payments without awaiting each other.
Pair == {1, 2}
PairInputs ==
  {[NoArgs EXCEPT !.sender = s, !.receiver = AddrString(1), !.amount = MaxAmount] :
     s \in Accounts}
InvokePair(p) ==
  /\ inv[p].status = "idle"
  /\ \E a \in PairInputs :
       inv' = [inv EXCEPT ![p] =
                 [Idle EXCEPT !.status = "running", !.op = "tx.sendPayment", !.args = a,
                              !.pc = 1, !.trace = <<Ev("call", "tx.sendPayment", 0, 0)>>]]
  /\ UNCHANGED <<procs, heap, wallet, recovered, msigCalls>>

InitPair ==
  /\ procs = Pair
  /\ inv = [p \in procs |-> Idle]
  /\ heap = InitialHeap
  /\ wallet = {}
  /\ recovered = NeverRecovered
  /\ msigCalls = <<>>

NextPair ==
  \/ \E p \in Pair : p \in procs /\ InvokePair(p)
  \/ \E p \in Pair : p \in procs /\ GetAlgodClient(p)
  \/ \E p \in Pair : p \in procs /\ Request(p)
  \/ \E p \in Pair : p \in procs /\ NetFail(p)
  \/ \E p \in Pair : p \in procs /\ ParamsResponse(p)
  \/ \E p \in Pair : p \in procs /\ Construct(p)
  \/ \E p \in Pair : p \in procs /\ Sign(p)
  \/ \E p \in Pair : p \in procs /\ SubmitResponse(p)
  \/ \E p \in Pair : p \in procs /\ WaitPoll(p)
  \/ \E p \in Pair : p \in procs /\ Return(p)
  \/ \E p \in Pair : p \in procs /\ Catch(p)
  \/ \E p \in Pair : p \in procs /\ Finish(p)

SpecPair == InitPair /\ [][NextPair]_vars

\* The example drivers: the statements left outside the comment block.
DriverOps ==
  {"ex.runExamples", "ac.runAccountExamples", "tx.runTransactionExamples",
   "sc.runSmartContractExamples"}

InvokeDriver(p) ==
  /\ inv[p].status = "idle"
  /\ \E op \in DriverOps :
       inv' = [inv EXCEPT ![p] =
                 [Idle EXCEPT !.status = "running", !.op = op, !.pc = 1,
                              !.trace = <<Ev("call", op, 0, 0)>>]]
  /\ UNCHANGED <<procs, heap, wallet, recovered, msigCalls>>

\* One statement of a driver's try block: a console.log, or a call or an
\* address conversion, which may throw; after the last one the driver ends.
DriverStep(p) ==
  /\ inv[p].op \in DriverOps
  /\ inv[p].status = "running"
  /\ LET r == inv[p]
         st == Step(r)
         last == r.pc = Len(Program(r.op))
         done == IF last THEN [r EXCEPT !.status = "returned", !.result = Returned(NoValue)]
                 ELSE Advance(r)
     IN \/ /\ st \in {"banner", "log", "notice", "complete"}
           /\ inv' = [inv EXCEPT ![p] = Logged(done, <<Ev("console.log", st, r.pc, 0)>>)]
        \/ /\ st \notin {"banner", "log", "notice", "complete"}
           /\ inv' = [inv EXCEPT ![p] = Logged(done, <<Ev("step", st, r.pc, 0)>>)]
        \/ /\ st \notin {"banner", "log", "notice", "complete"}
           /\ \E e \in {"TypeError", "sdk: failure"} :
                inv' = [inv EXCEPT ![p] = Throw(Logged(r, <<ErrEv("threw", st, e)>>), e)]
  /\ UNCHANGED <<procs, heap, wallet, recovered, msigCalls>>

\* A driver whose catch block logs and goes on with the next statement.
DriverCatchResumes(p) ==
  /\ inv[p].op \in DriverOps
  /\ inv[p].status = "thrown"
  /\ LET r == inv[p]
     IN inv' = [inv EXCEPT ![p] =
                  Logged([r EXCEPT !.status = "running", !.pc = @ + 1],
                         <<ErrEv("console.error", ErrorContext(r.op), r.err)>>)]
  /\ UNCHANGED <<procs, heap, wallet, recovered, msigCalls>>

\* catch (error) { console.error(context, error); } and the driver ends.
DriverCatch(p) ==
  /\ inv[p].op \in DriverOps
  /\ inv[p].status = "thrown"
  /\ LET r == inv[p]
     IN inv' = [inv EXCEPT ![p] =
                  Logged([r EXCEPT !.status = "returned", !.result = Returned(NoValue)],
                         <<ErrEv("console.error", ErrorContext(r.op), r.err)>>)]
  /\ UNCHANGED <<procs, heap, wallet, recovered, msigCalls>>

NextDriver ==
  \/ \E p \in ProcIds : p \in procs /\ InvokeDriver(p)
  \/ \E p \in ProcIds : p \in procs /\ DriverStep(p)
  \/ \E p \in ProcIds : p \in procs /\ DriverCatch(p)
  \/ \E p \in ProcIds : p \in procs /\ Finish(p)

SpecDriver == Init /\ [][NextDriver]_vars

\* ------------------------------------------------------------- properties

\* The positions of the events of one kind and subject in a trace.
At(t, k, s) == {i \in 1..Len(t) : t[i].k = k /\ t[i].s = s}
Of(t, k) == {i \in 1..Len(t) : t[i].k = k}
Before(I, J) == \A i \in I : \A j \in J : i < j
\* A signed request carries an authorisation: a key's signature, a logic
\* signature or a multisig part with a filled slot.
Authorised(st) ==
  \/ st.sig # 0
  \/ st.lsig.program.defined
  \/ \E i \in 1..Len(st.msig.signers) : st.msig.signers[i]
\* The operations that sign and submit in their own body.
SignAndSubmitOps == PlainSubmitOps \cup GroupSubmitOps \cup CompileSubmitOps

\* C1: in every operation that submits a request, within one invocation the
\* parameters are fetched before any request is constructed, every request is
\* constructed before any is signed, all are signed before the one submission
\* is sent, the confirmation wait starts only after the submission has
\* answered, and it is called with the identifier the submission returned.
C1_StepOrder ==
  \A p \in procs :
    inv[p].op \in SignAndSubmitOps =>
      LET t == inv[p].trace
          fetched == At(t, "response", "getTransactionParams")
          made == Of(t, "make")
          signed == Of(t, "sign")
          submit == At(t, "request", "sendRawTransaction")
          accepted == At(t, "response", "sendRawTransaction")
          wait == At(t, "request", "waitForConfirmation")
      IN /\ made # {} => fetched # {}
         /\ signed # {} => made # {}
         /\ submit # {} => signed # {}
         /\ wait # {} => accepted # {}
         /\ Before(fetched, made) /\ Before(made, signed) /\ Before(signed, submit)
         /\ Before(submit, accepted) /\ Before(accepted, wait)
         /\ submit # {} =>
              /\ Len(inv[p].signed) = Len(inv[p].txns)
              /\ \A i \in 1..Len(inv[p].signed) :
                   /\ Authorised(inv[p].signed[i])
                   /\ inv[p].signed[i].txn = inv[p].txns[i]
              /\ \A j \in submit : t[j].n = Len(inv[p].txns) /\ t[j].n = Cardinality(made)
         /\ \A k \in wait : \A j \in accepted : t[k].n = t[j].n

\* C1 witness: an application call has gone through all five steps and
\* returned, with the second identifier.
C1_Witness ==
  \E p \in procs :
    /\ inv[p].status = "returned"
    /\ inv[p].op = "sc.callApplication"
    /\ inv[p].txId = NTxIds
    /\ At(inv[p].trace, "request", "waitForConfirmation") # {}

\* C2: every confirmation wait, the composer's execute included, is given a
\* budget of exactly five rounds, whatever the caller passed.
C2_BudgetIsFive ==
  \A p \in procs :
    LET t == inv[p].trace
    IN /\ \A k \in At(t, "request", "waitForConfirmation") \cup At(t, "request", "execute") :
            t[k].m = 5
       /\ inv[p].waited <= 5

\* C2 witness: a logic-signature send, from a caller that passed a nonzero
\* amount, has waited its five rounds out and raised.
C2_Witness ==
  \E p \in procs :
    /\ inv[p].op = "sc.sendWithLogicSignature"
    /\ inv[p].args.amount = MaxAmount
    /\ inv[p].waited = 5
    /\ inv[p].status = "raised"
    /\ inv[p].err = "not confirmed in time"

\* The last two events of a trace are the catch block's: the log with the
\* operation's context, then the rethrow, both of error e.
EndsLoggedAndRethrown(t, op, e) ==
  /\ Len(t) >= 2
  /\ t[Len(t) - 1] = ErrEv("console.error", ErrorContext(op), e)
  /\ t[Len(t)] = ErrEv("throw", "", e)

\* C3 (as amended): every asynchronous operation whose step fails logs the
\* error under its own context message and then rethrows that same error,
\* the log first; the synchronous helpers generateAccount, recoverAccount and
\* createMultisigAccount let the SDK's error through unchanged and log nothing.
C3_LogThenRethrowSame ==
  \A p \in procs :
    LET r == inv[p]
        t == r.trace
    IN /\ (r.status = "raised" /\ r.op \in AsyncOps) =>
            /\ EndsLoggedAndRethrown(t, r.op, r.err)
            /\ r.result = Raised(r.err)
            /\ \A i \in Of(t, "failed") : t[i].e = r.err
            /\ \A i \in Of(t, "throw") : i > 1 /\ t[i - 1].k = "console.error"
                                         /\ t[i - 1].e = t[i].e /\ t[i].e = r.err
       /\ (r.status = "raised" /\ r.op \in LocalOps) =>
            /\ Of(t, "console.error") = {}
            /\ t[Len(t)] = ErrEv("throw", "", r.err)
            /\ r.result = Raised(r.err)
            /\ r.err # "none"
       /\ r.status = "raised" => r.err # "none"

\* C3 witness: a multisig send has failed at signing and the error has gone
\* through its catch block.
C3_Witness ==
  \E p \in procs :
    /\ inv[p].status = "raised"
    /\ inv[p].op = "ex.sendMultisigTransaction"
    /\ Program(inv[p].op)[inv[p].pc] = "sign"
    /\ Of(inv[p].trace, "console.error") # {}

\* C3 as first stated: every operation that raises has logged the error
\* first. recoverAccount with a bad phrase raises without any log.
C3_Original ==
  \A p \in procs :
    inv[p].status = "raised" =>
      \E i \in Of(inv[p].trace, "console.error") : inv[p].trace[i].e = inv[p].err

\* The events each step of a body leaves in the trace.
StepEvents(t, step) ==
  CASE step \in {"getTransactionParams", "sendRawTransaction", "waitForConfirmation",
                 "execute", "query", "compile"} -> At(t, "request", step)
    [] step \in CompileCalls -> {}
    [] step = "construct" -> Of(t, "make")
    [] step = "sign" -> Of(t, "sign")
    [] step = "assignGroupID" -> Of(t, "assignGroupID")
    [] step = "addMethodCall" -> Of(t, "addMethodCall")
    [] step = "return" -> Of(t, "return")
    [] OTHER -> {}

\* C4: no operation retries or recovers. Within one invocation the parameter
\* fetch, the submission and the confirmation wait (and the composer's
\* execute) are each issued at most once and the compiler is asked at most
\* once per program; after a failed call nothing follows but the catch
\* blocks' log and rethrow; and no step placed after the failed one has run.
C4_NoRetryNoRecovery ==
  \A p \in procs :
    LET r == inv[p]
        t == r.trace
    IN /\ \A s \in {"getTransactionParams", "sendRawTransaction", "waitForConfirmation",
                    "execute", "query"} : Cardinality(At(t, "request", s)) <= 1
       /\ Cardinality(At(t, "request", "compile"))
            <= Cardinality({j \in 1..Len(Program(r.op)) :
                              Program(r.op)[j] \in CompileCalls \cup {"compile"}})
       /\ \A i \in Of(t, "failed") :
            \A j \in (i + 1)..Len(t) : t[j].k \in {"console.error", "throw"}
       /\ Cardinality(Of(t, "failed")) <= 1
       /\ (r.status \in {"thrown", "raised"} /\ r.op \in AsyncOps) =>
            /\ Of(t, "return") = {}
            /\ \A j \in (r.pc + 1)..Len(Program(r.op)) :
                 StepEvents(t, Program(r.op)[j]) = {}

\* C4 witness: an application update whose submission failed has raised,
\* with no confirmation wait in its trace.
C4_Witness ==
  \E p \in procs :
    /\ inv[p].status = "raised"
    /\ inv[p].op = "sc.updateApplication"
    /\ Program(inv[p].op)[inv[p].pc] = "sendRawTransaction"
    /\ Of(inv[p].trace, "failed") # {}

\* C5 (as amended): every operation that submits a request ends in exactly one
\* of two outcomes, a return or a raise. It returns only if the submission
\* was accepted and the confirmation came within the five rounds, and then
\* what it returns is the record of the confirmation wait, unchanged, except
\* that createAsset and createApplication return the created identifier read
\* from that record and callABIMethod returns the composer's result; when a
\* call failed it raises and returns nothing.
C5_RecordOrRaise ==
  \A p \in procs :
    LET r == inv[p]
        t == r.trace
        answered == At(t, "response", "waitForConfirmation")
        executed == At(t, "response", "execute")
    IN (r.op \in SubmitOps /\ r.status \in {"returned", "raised"}) =>
         /\ r.status = "returned" <=> r.result.kind = "returned"
         /\ r.status = "raised" <=> r.result.kind = "raised"
         /\ r.status = "raised" <=> Of(t, "throw") # {}
         /\ r.status = "returned" <=> Of(t, "return") # {}
         /\ r.status = "raised" => r.result.val = NoValue
         /\ Of(t, "failed") # {} => r.status = "raised"
         /\ (r.status = "returned" /\ r.op \notin ComposerOps) =>
              /\ At(t, "response", "sendRawTransaction") # {}
              /\ answered # {}
              /\ \A k \in answered :
                   /\ t[k].m <= 5
                   /\ r.confirmed.confirmedRound = t[k].m
                   /\ r.confirmed.txId = t[k].n
              /\ CASE r.op \in {"tx.createAsset", "ex.createAsset"} ->
                        /\ r.result.val.what = "assetId"
                        /\ r.result.val.n = r.confirmed.assetIndex
                        /\ r.result.val.n # 0
                   [] r.op \in {"sc.createApplication", "ex.createApplication"} ->
                        /\ r.result.val.what = "appId"
                        /\ r.result.val.n = r.confirmed.applicationIndex
                        /\ r.result.val.n # 0
                   [] OTHER ->
                        /\ r.result.val.what = "confirmedTxn"
                        /\ r.result.val.rec = r.confirmed
         /\ (r.status = "returned" /\ r.op \in ComposerOps) =>
              /\ executed # {}
              /\ r.result.val.what = "composerResult"

\* C5 witness: createAsset has returned the identifier of the asset.
C5_Witness ==
  \E p \in procs :
    /\ inv[p].status = "returned"
    /\ inv[p].op = "tx.createAsset"
    /\ inv[p].result.val.what = "assetId"
    /\ inv[p].result.val.n = inv[p].confirmed.assetIndex

\* C5 as first stated: an operation that submits a request and returns,
\* returns the confirmation record of the wait.
C5_Original ==
  \A p \in procs :
    (inv[p].op \in SubmitOps /\ inv[p].status = "returned") =>
      /\ inv[p].result.val.what = "confirmedTxn"
      /\ inv[p].result.val.rec = inv[p].confirmed

\* C6: recovering the phrase that generateAccount returned with an account
\* gives an account of the same address, in the caller's calls and for every
\* account it holds.
C6_RoundTrip ==
  /\ \A w \in wallet :
       /\ ~recoverAccount(w.mnemonic).threw
       /\ recoverAccount(w.mnemonic).account.addr = w.account.addr
  /\ \A w \in wallet :
       (recovered.called /\ recovered.mnemonic = w.mnemonic) =>
         /\ ~recovered.threw
         /\ recovered.account.addr = w.account.addr
  /\ \A p \in procs :
       (inv[p].status = "returned" /\ inv[p].op \in GenerateOps) =>
         LET g == inv[p].result.val
         IN /\ ~recoverAccount(g.mnemonic).threw
            /\ recoverAccount(g.mnemonic).account.addr = g.account.addr

\* C6 witness: the caller holds both accounts and has recovered the phrase of
\* the second.
C6_Witness ==
  /\ Cardinality(wallet) = NSeeds
  /\ recovered.called
  /\ ~recovered.threw
  /\ \E w \in wallet : /\ w.mnemonic = recovered.mnemonic
                       /\ w.account.addr = Address("pk", <<PubKey(NSeeds)>>)

\* C7: two calls of createMultisigAccount with the same members in the same
\* order and the same threshold end the same way, with the same address,
\* whatever the caller did in between.
C7_Deterministic ==
  /\ \A i, j \in 1..Len(msigCalls) :
       (/\ msigCalls[i].addresses = msigCalls[j].addresses
        /\ msigCalls[i].threshold = msigCalls[j].threshold) =>
         /\ msigCalls[i].threw = msigCalls[j].threw
         /\ msigCalls[i].address = msigCalls[j].address
  /\ \A p \in procs : \A i \in 1..Len(msigCalls) :
       (/\ inv[p].op \in MultisigOps
        /\ inv[p].status \in {"returned", "raised"}
        /\ heap[inv[p].args.addresses] = msigCalls[i].addresses
        /\ inv[p].args.threshold = msigCalls[i].threshold) =>
         /\ (inv[p].status = "raised") = msigCalls[i].threw
         /\ inv[p].result.val.address = msigCalls[i].address

\* C7 witness: the same two members and threshold were passed twice, from two
\* different arrays, after a call with other members, and an address came back.
C7_Witness ==
  /\ Len(msigCalls) = 2
  /\ msigCalls[1].addresses # msigCalls[2].addresses
  /\ ~msigCalls[2].threw
  /\ Len(msigCalls[2].addresses) = 2
  /\ msigCalls[2].params.addrs = "a"
  /\ \E p \in procs :
       /\ inv[p].op \in MultisigOps
       /\ inv[p].status = "returned"
       /\ inv[p].args.addresses = "b"
       /\ heap["b"] = msigCalls[2].addresses
       /\ inv[p].args.threshold = msigCalls[2].threshold

\* C8: createMultisigAccount, generateAccount and recoverAccount create no
\* client and send nothing to the node.
C8_LocalOnly ==
  \A p \in procs :
    inv[p].op \in LocalOps =>
      /\ inv[p].clients = 0
      /\ Of(inv[p].trace, "new Algodv2") = {}
      /\ Of(inv[p].trace, "request") = {}
      /\ Of(inv[p].trace, "response") = {}
      /\ ~inv[p].pending

\* C8 witness: createMultisigAccount has returned an address.
C8_Witness ==
  \E p \in procs :
    /\ inv[p].op = "ac.createMultisigAccount"
    /\ inv[p].status = "returned"
    /\ inv[p].result.val.address.form = "Address"
    /\ Of(inv[p].trace, "sdk") # {}

\* The receivers an atomic send was called with, in order, and the key of the
\* address each stands for.
GroupReceivers(op, a) ==
  IF op = "tx.sendAtomicTransactions" THEN a.receivers ELSE <<a.receiver, a.receiver2>>
ReceiverKey(x) == IF x.type = "string" THEN x.text.v ELSE x.addr.v

\* C9: in sendAtomicTransactions the group identifier is assigned once, to all
\* the requests, before any of them is signed; every request signed and
\* submitted carries that one identifier; there is one payment per receiver,
\* in the receivers' order; and all go to the node in one submission.
C9_GroupBeforeSign ==
  \A p \in procs :
    inv[p].op \in GroupSubmitOps =>
      LET r == inv[p]
          t == r.trace
          rcv == GroupReceivers(r.op, r.args)
          made == Of(t, "make")
          grouped == Of(t, "assignGroupID")
          signed == Of(t, "sign")
          submit == At(t, "request", "sendRawTransaction")
      IN /\ Cardinality(grouped) <= 1
         /\ Cardinality(submit) <= 1
         /\ Before(made, grouped) /\ Before(grouped, signed) /\ Before(signed, submit)
         /\ made # {} =>
              /\ Len(r.txns) = Len(rcv)
              /\ Cardinality(made) = Len(rcv)
              /\ \A i \in 1..Len(rcv) :
                   /\ r.txns[i].type = "pay"
                   /\ r.txns[i].receiver.v = ReceiverKey(rcv[i])
                   /\ r.txns[i].sender.v = r.args.sender.addr.v
                   /\ r.txns[i].amount = r.args.amount
         /\ signed # {} =>
              /\ grouped # {}
              /\ Len(r.txns) >= 1
              /\ Cardinality(signed) = Len(r.txns)
              /\ Len(r.signed) = Len(r.txns)
              /\ r.txns[1].group # 0
              /\ \A i \in 1..Len(r.txns) :
                   /\ r.txns[i].group = r.txns[1].group
                   /\ r.signed[i].txn = r.txns[i]
                   /\ r.signed[i].sig = r.args.sender.sk[2]
              /\ \A k \in signed : t[k].m = r.txns[1].group
              /\ \A k \in grouped : t[k].m = r.txns[1].group /\ t[k].n = Len(rcv)
         /\ \A j \in submit : signed # {} /\ t[j].n = Len(rcv)

\* C9 witness: a group of two payments to two different receivers has been
\* grouped, signed and submitted in one call.
C9_Witness ==
  \E p \in procs :
    /\ inv[p].op = "tx.sendAtomicTransactions"
    /\ Len(inv[p].args.receivers) = 2
    /\ ReceiverKey(inv[p].args.receivers[1]) # ReceiverKey(inv[p].args.receivers[2])
    /\ At(inv[p].trace, "response", "sendRawTransaction") # {}
    /\ inv[p].signed[2].txn.group # 0

\* C10: sendAtomicTransactions called with no receiver fails where it assigns
\* the group identifier: it signs and submits nothing, never returns, and what
\* it raises is the error of the group assignment or of the parameter fetch
\* before it.
C10_EmptyGroupRaises ==
  \A p \in procs :
    (inv[p].op = "tx.sendAtomicTransactions" /\ inv[p].args.receivers = <<>>) =>
      LET r == inv[p]
          t == r.trace
      IN /\ r.status # "returned"
         /\ r.result.kind # "returned"
         /\ Of(t, "sign") = {} /\ Of(t, "return") = {}
         /\ At(t, "request", "sendRawTransaction") = {}
         /\ At(t, "request", "waitForConfirmation") = {}
         /\ r.status = "running" => Step(r) \in {"getAlgodClient", "getTransactionParams",
                                                 "construct", "assignGroupID"}
         /\ (r.status = "raised" /\ Of(t, "failed") = {}) =>
              /\ r.err = "sdk: group of zero transactions"
              /\ Of(t, "assignGroupID") # {}

\* C10 witness: the call with no receiver has raised the error of the group
\* assignment.
C10_Witness ==
  \E p \in procs :
    /\ inv[p].op = "tx.sendAtomicTransactions"
    /\ inv[p].args.receivers = <<>>
    /\ inv[p].status = "raised"
    /\ inv[p].err = "sdk: group of zero transactions"
    /\ inv[p].result = Raised("sdk: group of zero transactions")

\* C11: optInToAsset builds one asset transfer from the opting-in account to
\* itself, of amount 0 and of the asset it was given, and signs it with that
\* account's key.
C11_OptInShape ==
  \A p \in procs :
    inv[p].op \in {"tx.optInToAsset", "ex.optInToAsset"} =>
      LET r == inv[p]
          t == r.trace
      IN /\ Of(t, "make") # {} =>
              /\ Len(r.txns) = 1
              /\ \A i \in Of(t, "make") :
                   t[i].s = "makeAssetTransferTxnWithSuggestedParamsFromObject"
              /\ r.txns[1].type = "axfer"
              /\ r.txns[1].sender = r.args.sender.addr
              /\ r.txns[1].receiver = r.args.sender.addr
              /\ r.txns[1].amount = 0
              /\ r.txns[1].assetIndex = r.args.assetId
              /\ r.txns[1].assetSender = UndefinedAddr
         /\ Of(t, "sign") # {} =>
              /\ Len(r.signed) = 1
              /\ r.signed[1].txn = r.txns[1]
              /\ r.signed[1].sig = r.args.sender.sk[2]
              /\ r.signed[1].sig = r.txns[1].sender.v[1]
              /\ \A i \in Of(t, "sign") : t[i].n = r.args.sender.sk[2]
         /\ At(t, "request", "sendRawTransaction") # {} => Of(t, "sign") # {}

\* C11 witness: the last account has opted in to the last asset and the
\* request was submitted.
C11_Witness ==
  \E p \in procs :
    /\ inv[p].op = "tx.optInToAsset"
    /\ inv[p].args.sender = AcctObj(NSeeds)
    /\ inv[p].args.assetId = MaxId
    /\ At(inv[p].trace, "response", "sendRawTransaction") # {}

\* C12: revokeAsset sends the request from the clawback manager and signs it
\* with the manager's key; the holder is only the source of the asset, and no
\* signature is made with any other key than the manager's.
C12_ClawbackSigner ==
  \A p \in procs :
    inv[p].op = "tx.revokeAsset" =>
      LET r == inv[p]
          t == r.trace
      IN /\ Of(t, "make") # {} =>
              /\ Len(r.txns) = 1
              /\ r.txns[1].type = "axfer"
              /\ r.txns[1].sender = r.args.sender.addr
              /\ r.txns[1].assetSender.v = ReceiverKey(r.args.target)
              /\ r.txns[1].receiver.v = ReceiverKey(r.args.receiver)
              /\ r.txns[1].amount = r.args.amount
              /\ r.txns[1].assetIndex = r.args.assetId
         /\ Of(t, "sign") # {} =>
              /\ Len(r.signed) = 1
              /\ r.signed[1].txn = r.txns[1]
              /\ r.signed[1].sig = r.args.sender.sk[2]
              /\ r.signed[1].lsig = NoLsig /\ r.signed[1].msig = NoMsig
              /\ \A i \in Of(t, "sign") : t[i].n = r.args.sender.sk[2]
              /\ ReceiverKey(r.args.target) # r.args.sender.addr.v =>
                   <<r.signed[1].sig>> # ReceiverKey(r.args.target)
         /\ At(t, "request", "sendRawTransaction") # {} => Of(t, "sign") # {}

\* C12 witness: a revoke from a holder passed as an account with a key of its
\* own, other than the manager, has been signed and submitted.
C12_Witness ==
  \E p \in procs :
    /\ inv[p].op = "tx.revokeAsset"
    /\ inv[p].args.target.type = "object"
    /\ inv[p].args.target.sk # <<>>
    /\ inv[p].args.target.sk # inv[p].args.sender.sk
    /\ inv[p].args.amount = MaxAmount
    /\ At(inv[p].trace, "response", "sendRawTransaction") # {}

\* C13: readGlobalState and readLocalState give every entry they read a key
\* that is the entry's key base64-decoded to text; the value is the payload
\* base64-decoded to text when the entry's type is 1 and the entry's integer
\* field otherwise; where a key comes twice the last entry stands; and both
\* readers give the same entries the same object.
C13_DecodeRule ==
  \A p \in procs :
    (inv[p].op \in {"sc.readGlobalState", "sc.readLocalState"}
       /\ inv[p].status = "returned") =>
      LET r == inv[p]
          a == r.answer
          hit == {i \in 1..Len(a.apps) : a.apps[i].id = r.args.appId}
          first == CHOOSE i \in hit : \A j \in hit : i <= j
          items == IF r.op = "sc.readGlobalState" THEN a.items
                   ELSE IF hit # {} THEN a.apps[first].kv ELSE <<>>
          out == r.result.val.state
          KeyOf(i) == Utf8Decode(Base64Decode(items[i].key))
      IN /\ r.result.val.what = "state"
         /\ DOMAIN out = {KeyOf(i) : i \in 1..Len(items)}
         /\ \A i \in 1..Len(items) :
              (\A j \in (i + 1)..Len(items) : KeyOf(j) # KeyOf(i)) =>
                IF items[i].value.type = 1
                THEN /\ out[KeyOf(i)].type = "string"
                     /\ out[KeyOf(i)].text = Utf8Decode(Base64Decode(items[i].value.bytes))
                ELSE /\ out[KeyOf(i)].type = "number"
                     /\ out[KeyOf(i)].n = items[i].value.uint
         /\ GlobalState([NoAnswer EXCEPT !.has = TRUE, !.items = items]) = out
         /\ LocalState([NoAnswer EXCEPT !.has = TRUE,
                          !.apps = <<[id |-> r.args.appId, has |-> TRUE, kv |-> items]>>],
                       r.args.appId) = out

\* C13 witness: readGlobalState has returned a state of two keys, one read as
\* text from an entry of type 1 and one as a number from an entry of type 2.
C13_Witness ==
  \E p \in procs :
    /\ inv[p].op = "sc.readGlobalState"
    /\ inv[p].status = "returned"
    /\ Len(inv[p].answer.items) = 2
    /\ inv[p].answer.items[1].value.type = 1
    /\ inv[p].answer.items[2].value.type = 2
    /\ inv[p].answer.items[2].value.uint = MaxUint
    /\ inv[p].result.val.state =
         [k \in {<<97, 98, 99>>, <<233, 65>>} |->
            IF k = <<97, 98, 99>> THEN StateValue("string", <<233, 65>>, 0)
            ELSE StateValue("number", <<>>, MaxUint)]

\* C14: no operation refuses locally: an invocation that ends without having
\* submitted has failed in the parameter fetch or a compilation with a network
\* error, or in the SDK's construction, grouping or signing with the SDK's own
\* error; whatever the amounts, ids and accounts, nothing else stops it.
C14_NoLocalRefusal ==
  \A p \in procs :
    (/\ inv[p].op \in SignAndSubmitOps
     /\ inv[p].status \in {"thrown", "raised"}
     /\ At(inv[p].trace, "request", "sendRawTransaction") = {}) =>
      LET step == Program(inv[p].op)[inv[p].pc]
          err == inv[p].err
      IN /\ step \in {"getTransactionParams", "construct", "assignGroupID", "sign"}
                       \cup CompileCalls
         /\ step \in NetSteps => err \in NetErrors
         /\ step = "construct" => err \in {"TypeError", "sdk: bad field"}
         /\ step = "assignGroupID" => err = "sdk: group of zero transactions"
         /\ step = "sign" => err \in {"TypeError", "sdk: key does not exist", "sdk: no key"}

\* C14 witness: a payment of nothing from an account to itself has been
\* fetched for, built, signed and handed to the node.
C14_Witness ==
  \E p \in procs :
    /\ inv[p].op = "tx.sendPayment"
    /\ inv[p].args.amount = 0
    /\ inv[p].args.receiver = inv[p].args.sender
    /\ At(inv[p].trace, "request", "sendRawTransaction") # {}
    /\ inv[p].signed[1].txn.amount = 0

\* C15: rekeyAccount builds one payment of amount 0 from the account to itself
\* whose rekey target is the authorising account, and signs it with the
\* account's own key; sendWithRekeyedAccount builds its payment with the
\* original account as sender and signs it with the authorising account's key,
\* which is not the original account's key unless the caller passed the same
\* account as both.
C15_Rekeying ==
  \A p \in procs :
    LET r == inv[p]
        t == r.trace
        a == r.args
    IN /\ (r.op = "ac.rekeyAccount" /\ Of(t, "make") # {}) =>
            /\ Len(r.txns) = 1
            /\ r.txns[1].type = "pay"
            /\ r.txns[1].sender = a.sender.addr
            /\ r.txns[1].receiver = a.sender.addr
            /\ r.txns[1].amount = 0
            /\ r.txns[1].rekeyTo = a.auth.addr
       /\ (r.op = "ac.rekeyAccount" /\ Of(t, "sign") # {}) =>
            /\ Len(r.signed) = 1
            /\ r.signed[1].txn = r.txns[1]
            /\ r.signed[1].sig = a.sender.sk[2]
            /\ \A i \in Of(t, "sign") : t[i].n = a.sender.sk[2]
       /\ (r.op = "ac.sendWithRekeyedAccount" /\ Of(t, "make") # {}) =>
            /\ Len(r.txns) = 1
            /\ r.txns[1].type = "pay"
            /\ r.txns[1].sender = a.sender.addr
            /\ r.txns[1].receiver.v = ReceiverKey(a.receiver)
            /\ r.txns[1].amount = a.amount
            /\ r.txns[1].rekeyTo = UndefinedAddr
       /\ (r.op = "ac.sendWithRekeyedAccount" /\ Of(t, "sign") # {}) =>
            /\ Len(r.signed) = 1
            /\ r.signed[1].txn = r.txns[1]
            /\ r.signed[1].sig = a.auth.sk[2]
            /\ \A i \in Of(t, "sign") : t[i].n = a.auth.sk[2]
            /\ a.auth # a.sender => r.signed[1].sig # a.sender.sk[2]
       /\ (r.op \in {"ac.rekeyAccount", "ac.sendWithRekeyedAccount"}
             /\ At(t, "request", "sendRawTransaction") # {}) => Of(t, "sign") # {}

\* C15 witness: a send from a rekeyed account, signed by an authorising
\* account other than the original one, has been confirmed and returned.
C15_Witness ==
  \E p \in procs :
    /\ inv[p].op = "ac.sendWithRekeyedAccount"
    /\ inv[p].args.auth # inv[p].args.sender
    /\ inv[p].args.amount = MaxAmount
    /\ inv[p].status = "returned"
    /\ inv[p].signed[1].sig = inv[p].args.auth.sk[2]

C17_OneCallOneExecute ==
  \A p \in procs :
    inv[p].op \in ComposerOps =>
      LET r == inv[p]
          t == r.trace
          made == Of(t, "new AtomicTransactionComposer")
          added == Of(t, "addMethodCall")
          asked == At(t, "request", "execute")
          answered == At(t, "response", "execute")
      IN /\ Cardinality(made) <= 1 /\ Cardinality(added) <= 1
         /\ Cardinality(asked) <= 1 /\ Cardinality(answered) <= 1
         /\ \A i \in added : i - 1 \in made
         /\ Before(added, asked) /\ Before(asked, answered)
         /\ asked # {} =>
              /\ Cardinality(added) = 1
              /\ Len(r.txns) = 1
              /\ \A i \in asked : t[i].n = 1
              /\ r.txns[1].sender = r.args.sender.addr
              /\ r.txns[1].appIndex = r.args.appId
         /\ answered # {} =>
              /\ Len(r.signed) = 1
              /\ r.signed[1].txn = r.txns[1]
              /\ r.signed[1].sig = r.args.sender.sk[2]
              /\ \A i \in answered : r.confirmed.txId = t[i].n
         /\ Of(t, "sign") = {} /\ At(t, "request", "sendRawTransaction") = {}
         /\ r.status = "returned" =>
              /\ answered # {}
              /\ r.result = Returned([NoValue EXCEPT !.what = "composerResult",
                                                     !.rec = r.confirmed])

\* C17 witness: a call of the method "increment" with its one argument has
\* been executed and its result returned.
C17_Witness ==
  \E p \in procs :
    /\ inv[p].op \in ComposerOps
    /\ inv[p].status = "returned"
    /\ inv[p].args.methodName = "increment"
    /\ Len(inv[p].args.appArgs) = 1
    /\ inv[p].result.val.rec.txId = NTxIds
    /\ Cardinality(Of(inv[p].trace, "addMethodCall")) = 1

\* What the network has told an invocation so far.
IsHeard(e) == e.k \in {"response", "failed"}
Heard(r) == [answers |-> SelectSeq(r.trace, IsHeard), rounds |-> r.waited]
\* The step has changed invocation p and nothing else.
OnlyChanges(p) ==
  /\ \A q \in procs \ {p} : inv'[q] = inv[q]
  /\ UNCHANGED <<procs, heap, wallet, recovered, msigCalls>>
\* Every client handle in the invocation's trace is its own: as many as it
\* has opened, each with the empty token, the first before any request.
OwnClients(r) ==
  /\ Cardinality(Of(r.trace, "new Algodv2")) = r.clients
  /\ \A i \in Of(r.trace, "new Algodv2") : r.trace[i].s = ""
  /\ Of(r.trace, "request") # {} =>
       \E i \in Of(r.trace, "new Algodv2") : \A j \in Of(r.trace, "request") : i < j

\* C18: with two payments under way at once, every step changes the one
\* invocation that takes it and nothing any other can read; each invocation
\* has opened its own client with the empty token; and two invocations given
\* the same arguments and told the same by the network are in the same state,
\* with the same request signed and the same outcome, however their steps
\* were interleaved.
C18_NoSharedState ==
  /\ [](\A p \in procs : OwnClients(inv[p]))
  /\ [](\A p, q \in procs :
          (/\ inv[p].args = inv[q].args /\ inv[p].op = inv[q].op
           /\ inv[p].status = inv[q].status /\ inv[p].pc = inv[q].pc
           /\ inv[p].pending = inv[q].pending
           /\ Heard(inv[p]) = Heard(inv[q])) =>
            /\ inv[p].signed = inv[q].signed
            /\ inv[p].result = inv[q].result
            /\ inv[p] = inv[q])
  /\ [][\A p \in procs : inv'[p] # inv[p] => OnlyChanges(p)]_vars

\* C18 witness: one payment is waiting for the answer to its submission
\* while the other, started with another sender, has already returned.
C18_Witness ==
  /\ procs = Pair
  /\ inv[1].status = "running" /\ inv[1].pending
  /\ Program(inv[1].op)[inv[1].pc] = "sendRawTransaction"
  /\ inv[2].status = "returned"
  /\ inv[1].args.sender # inv[2].args.sender
  /\ inv[1].signed[1].sig = inv[1].args.sender.sk[2]
  /\ inv[2].signed[1].sig = inv[2].args.sender.sk[2]

\* C19: within one invocation requests and answers alternate: every answer
\* (a result or a failure) follows a request of its own, every request but
\* the first follows the answer to the one before, and so at most one request
\* is unanswered at any time, which is when the invocation is suspended.
C19_OneOutstanding ==
  \A p \in procs :
    LET r == inv[p]
        t == r.trace
        asked == Of(t, "request")
        answered == {i \in 1..Len(t) : IsHeard(t[i])}
    IN /\ \A i, j \in asked : i < j => \E k \in answered : i < k /\ k < j
       /\ \A k, l \in answered : k < l => \E i \in asked : k < i /\ i < l
       /\ \A k \in answered : \E i \in asked : i < k
       /\ Cardinality(asked) - Cardinality(answered) \in {0, 1}
       /\ r.pending <=> Cardinality(asked) = Cardinality(answered) + 1

\* C19 witness: createApplication has returned after five network calls, the
\* two compilations, the parameter fetch, the submission and the wait.
C19_Witness ==
  \E p \in procs :
    /\ inv[p].op = "sc.createApplication"
    /\ inv[p].status = "returned"
    /\ Cardinality(Of(inv[p].trace, "request")) = 5
    /\ Cardinality(At(inv[p].trace, "request", "compile")) = 2

\* C20: when every network call is answered and the rounds of a confirmation
\* wait keep passing, every invocation that has started ends, returned or
\* raised; the wait ends at the latest when its budget of rounds is used up.
C20_Terminates ==
  \A p \in ProcIds :
    (p \in procs /\ inv[p].status \in {"running", "thrown"})
      ~> (inv[p].status \in {"returned", "raised"})

\* C20 witness: sendTransactionWithLease has returned, confirmed in the last
\* round its wait allows.
C20_Witness ==
  \E p \in procs :
    /\ inv[p].op = "tx.sendTransactionWithLease"
    /\ inv[p].status = "returned"
    /\ inv[p].waited = RoundBudget - 1
    /\ inv[p].confirmed.confirmedRound # 0

\* C21: in every example driver, when a statement throws, the next thing
\* that happens is the one console.error of the driver's catch block, with the
\* driver's message and the error thrown, and then the driver ends: no later
\* statement runs, the completion banner is not printed, and the driver ends
\* by returning, never by raising.
C21_DriverLogsAndStops ==
  \A p \in procs :
    inv[p].op \in DriverOps =>
      LET r == inv[p]
          t == r.trace
          threw == Of(t, "threw")
          caught == Of(t, "console.error")
      IN /\ r.status \in {"running", "thrown", "returned"}
         /\ r.result.kind # "raised"
         /\ Cardinality(threw) <= 1 /\ Cardinality(caught) <= 1
         /\ \A i \in threw :
              /\ At(t, "console.log", "complete") = {}
              /\ \A j \in (i + 1)..Len(t) :
                   /\ j = i + 1
                   /\ t[j].k = "console.error"
                   /\ t[j].s = ErrorContext(r.op)
                   /\ t[j].e = t[i].e
              /\ r.status = "returned" => Len(t) = i + 1
              /\ r.pc < Len(Program(r.op))
         /\ \A j \in caught : j - 1 \in threw
         /\ r.status = "returned" =>
              /\ r.result = Returned(NoValue)
              /\ threw = {} => t[Len(t)] = Ev("console.log", "complete", Len(Program(r.op)), 0)

\* C21 witness: runAccountExamples has ended after createMultisigAccount,
\* its tenth statement, threw: the error is logged and no banner follows.
C21_Witness ==
  \E p \in procs :
    /\ inv[p].op = "ac.runAccountExamples"
    /\ inv[p].status = "returned"
    /\ At(inv[p].trace, "threw", "createMultisigAccount") # {}
    /\ inv[p].trace[Len(inv[p].trace)] =
         ErrEv("console.error", "Error running account examples:", "sdk: failure")

\* The operations on an application's lifecycle, and the request each makes.
LifecycleOps ==
  {"sc.createApplication", "sc.optInToApplication", "sc.callApplication",
   "sc.closeOutFromApplication", "sc.clearApplicationState", "sc.updateApplication",
   "sc.deleteApplication"}
LifecycleRequest(op) ==
  CASE op = "sc.createApplication" -> "NoOpOC"
    [] op = "sc.optInToApplication" -> "OptInOC"
    [] op = "sc.callApplication" -> "NoOpOC"
    [] op = "sc.closeOutFromApplication" -> "CloseOutOC"
    [] op = "sc.clearApplicationState" -> "ClearStateOC"
    [] op = "sc.updateApplication" -> "UpdateApplicationOC"
    [] OTHER -> "DeleteApplicationOC"

\* C22: nothing is kept from one call to the next (an idle caller holds no
\* record and no variable outside the invocation ever changes), so whatever
\* calls came before, each lifecycle operation builds the request of its own
\* kind for the application id it was given, signs it with the sender's key
\* and submits it; it ends before submitting only on a network error of a
\* fetch or compilation or on an error of the SDK's construction or signing.
C22_NoLifecycleRecord ==
  /\ heap = InitialHeap /\ wallet = {} /\ recovered = NeverRecovered /\ msigCalls = <<>>
  /\ \A p \in procs :
       /\ inv[p].status = "idle" => inv[p] = Idle
       /\ inv[p].op \in LifecycleOps =>
            LET r == inv[p]
                t == r.trace
                step == Program(r.op)[r.pc]
            IN /\ Of(t, "make") # {} =>
                    /\ Len(r.txns) = 1
                    /\ r.txns[1].type = "appl"
                    /\ r.txns[1].onComplete = LifecycleRequest(r.op)
                    /\ r.txns[1].sender = r.args.sender.addr
                    /\ r.txns[1].appIndex =
                         IF r.op = "sc.createApplication" THEN 0 ELSE r.args.appId
               /\ Of(t, "sign") # {} =>
                    /\ r.signed[1].txn = r.txns[1]
                    /\ r.signed[1].sig = r.args.sender.sk[2]
               /\ (r.status \in {"thrown", "raised"}
                     /\ At(t, "request", "sendRawTransaction") = {}) =>
                    /\ step \in {"getTransactionParams", "construct", "sign"} \cup CompileCalls
                    /\ step \in NetSteps => r.err \in NetErrors
                    /\ step = "construct" => r.err \in {"TypeError", "sdk: bad field"}
                    /\ step = "sign" => r.err \in {"TypeError", "sdk: no key"}
               /\ (r.status = "running" /\ Of(t, "sign") # {}
                     /\ At(t, "request", "sendRawTransaction") = {}) =>
                    step = "sendRawTransaction"

\* C22 witness: a close-out from the last application has been submitted and
\* the network has rejected it; nothing before the submission stopped it.
C22_Witness ==
  \E p \in procs :
    /\ inv[p].op = "sc.closeOutFromApplication"
    /\ inv[p].args.appId = MaxId
    /\ inv[p].status = "raised"
    /\ inv[p].err = "request rejected"
    /\ Program(inv[p].op)[inv[p].pc] = "sendRawTransaction"
    /\ inv[p].signed[1].txn.onComplete = "CloseOutOC"

\* C23: a descriptor createMultisigAccount returned keeps version 1, the
\* threshold and the ordered members it was made with, whatever the caller
\* does afterwards to the address list it passed in, so that the address
\* sendMultisigTransaction derives from it again is the one returned with it.
C23_DescriptorImmutable ==
  \A i \in 1..Len(msigCalls) :
    ~msigCalls[i].threw =>
      /\ msigCalls[i].params.version = 1
      /\ msigCalls[i].params.threshold = msigCalls[i].threshold
      /\ Resolve(msigCalls[i].params).addrs = msigCalls[i].addresses
      /\ MultisigSenderText(msigCalls[i].params) = AddrToString(msigCalls[i].address)

\* C24: sendMultisigTransaction signs with the supplied signers' keys in list
\* order, all before it submits; the one blob it submits has a slot filled for
\* each supplied signer and for no one else; with no signer it throws at the
\* signing and submits nothing; and the signing fails only for want of a
\* signer or for a signer who is no member, never for being fewer than the
\* threshold.
C24_CollectThenSubmit ==
  \A p \in procs :
    inv[p].op = "ex.sendMultisigTransaction" =>
      LET r == inv[p]
          t == r.trace
          sg == r.args.signers
          addrs == Resolve(r.args.multisigParams).addrs
          signs == Of(t, "sign")
          first == CHOOSE i \in signs : \A j \in signs : i <= j
      IN /\ signs # {} =>
              /\ signs = first..(first + Len(sg) - 1)
              /\ \A k \in 1..Len(sg) : t[first + k - 1].n = sg[k].sk[2]
              /\ Len(r.signed) = 1
              /\ r.signed[1].txn = r.txns[1]
              /\ r.signed[1].sig = 0
              /\ Len(r.signed[1].msig.signers) = Len(addrs)
              /\ \A i \in 1..Len(addrs) :
                   r.signed[1].msig.signers[i] <=>
                     \E k \in 1..Len(sg) : i = MemberIndex(addrs, sg[k].sk[2])
              /\ \A k \in 1..Len(sg) :
                   Cardinality({i \in 1..Len(addrs) :
                                  r.signed[1].msig.signers[i]
                                    /\ addrs[i].v[1] = sg[k].sk[2]}) = 1
         /\ Before(signs, At(t, "request", "sendRawTransaction"))
         /\ At(t, "request", "sendRawTransaction") # {} => signs # {}
         /\ Len(sg) = 0 =>
              /\ signs = {} /\ r.signed = <<>>
              /\ r.status = "running" => r.pc <= 4
         /\ (r.status \in {"thrown", "raised"} /\ Program(r.op)[r.pc] = "sign") =>
              \/ Len(sg) = 0 /\ r.err = "TypeError"
              \/ /\ \E k \in 1..Len(sg) : MemberIndex(addrs, sg[k].sk[2]) = 0
                 /\ r.err = "sdk: key does not exist"

\* C24 witness: a request of a two-of-two account, signed by its second member
\* alone, has been submitted.
C24_Witness ==
  \E p \in procs :
    /\ inv[p].op = "ex.sendMultisigTransaction"
    /\ inv[p].args.multisigParams.threshold = 2
    /\ Len(inv[p].args.signers) = 1
    /\ At(inv[p].trace, "request", "sendRawTransaction") # {}
    /\ inv[p].signed[1].msig.signers = <<FALSE, TRUE>>

\* C25: createApplication and updateApplication compile the approval program
\* and then the clear program, both before the parameter fetch and before the
\* request is built, and the request carries the two results in that order;
\* when a compilation fails none follows it, no parameters are fetched and
\* nothing is built, signed or submitted, and the error is logged by
\* compileProgram, then by the operation, and raised unchanged.
C25_CompileFirst ==
  \A p \in procs :
    inv[p].op \in CompileSubmitOps =>
      LET r == inv[p]
          t == r.trace
          asked == At(t, "request", "compile")
          answered == At(t, "response", "compile")
          failed == {i \in Of(t, "failed") : t[i].s \in CompileCalls}
          logged == Of(t, "console.error")
          approval == Base64Decode(CompiledResult(r.args.approvalProgram))
          clear == Base64Decode(CompiledResult(r.args.clearProgram))
      IN /\ Cardinality(asked) <= 2
         /\ Len(r.compiled) = Cardinality(answered)
         /\ Len(r.compiled) >= 1 => r.compiled[1] = approval
         /\ Len(r.compiled) >= 2 => r.compiled[2] = clear
         /\ Before(asked, At(t, "request", "getTransactionParams"))
         /\ Before(answered, At(t, "request", "getTransactionParams"))
         /\ Before(answered, Of(t, "make"))
         /\ (At(t, "request", "getTransactionParams") # {} \/ Of(t, "make") # {}) =>
              Cardinality(answered) = 2
         /\ Of(t, "make") # {} =>
              /\ r.txns[1].approvalProgram = Bytes(approval)
              /\ r.txns[1].clearProgram = Bytes(clear)
         /\ failed # {} =>
              /\ Cardinality(failed) = 1
              /\ Cardinality(asked) = Cardinality(answered) + 1
              /\ \A i \in failed : \A j \in asked : j < i
              /\ At(t, "request", "getTransactionParams") = {}
              /\ Of(t, "make") = {} /\ Of(t, "sign") = {}
              /\ At(t, "request", "sendRawTransaction") = {}
              /\ r.txns = <<>> /\ r.signed = <<>>
              /\ \A i \in failed :
                   /\ t[i + 1] = ErrEv("console.error", ErrorContext("sc.compileProgram"),
                                       t[i].e)
                   /\ r.err = t[i].e
                   /\ r.status = "raised" =>
                        /\ Cardinality(logged) = 2
                        /\ \E j \in logged :
                             /\ j > i + 1
                             /\ t[j] = ErrEv("console.error", ErrorContext(r.op), t[i].e)
                        /\ r.result = Raised(t[i].e)

\* C25 witness: updateApplication has raised the error of its second
\* compilation, the first having answered.
C25_Witness ==
  \E p \in procs :
    /\ inv[p].op = "sc.updateApplication"
    /\ inv[p].status = "raised"
    /\ inv[p].args.approvalProgram # inv[p].args.clearProgram
    /\ Cardinality(At(inv[p].trace, "response", "compile")) = 1
    /\ Cardinality(At(inv[p].trace, "request", "compile")) = 2
    /\ Program(inv[p].op)[inv[p].pc] = "compileClear"

\* The submitting operations that sign with the key of the account they send from.
OwnKeyOps ==
  SubmitOps \ {"ac.sendWithRekeyedAccount", "sc.sendWithLogicSignature",
               "ex.sendMultisigTransaction"}

\* C26: in every submitting operation other than sendWithRekeyedAccount,
\* sendWithLogicSignature and sendMultisigTransaction, every request built has
\* the address of the account passed first as its sender and every signature
\* is made with the key of that same account object, whatever other accounts
\* the call names; so configureAsset and destroyAsset are sent and signed by
\* the manager supplied and freezeAsset by the freeze manager supplied.
C26_SenderSigns ==
  \A p \in procs :
    inv[p].op \in OwnKeyOps =>
      LET r == inv[p]
          t == r.trace
          who == r.args.sender
      IN /\ who \in Accounts
         /\ \A i \in 1..Len(r.txns) : r.txns[i].sender = who.addr
         /\ \A i \in Of(t, "sign") : t[i].n = who.sk[2]
         /\ Cardinality(Of(t, "sign")) \in {0, Len(r.txns)}
         /\ r.signed # <<>> =>
              /\ Len(r.signed) = Len(r.txns)
              /\ \A i \in 1..Len(r.signed) :
                   /\ r.signed[i].txn = r.txns[i]
                   /\ r.signed[i].sig = who.sk[2]
                   /\ r.signed[i].lsig = NoLsig
                   /\ r.signed[i].msig = NoMsig
                   /\ r.signed[i].txn.sender = Address("pk", <<r.signed[i].sig>>)
         /\ At(t, "request", "sendRawTransaction") # {} => r.signed # <<>>

\* C26 witness: a configuration naming another account object as the new
\* manager has been signed, submitted and confirmed.
C26_Witness ==
  \E p \in procs :
    /\ inv[p].op = "tx.configureAsset"
    /\ inv[p].args.newManager \in Accounts \ {inv[p].args.sender}
    /\ inv[p].signed # <<>>
    /\ inv[p].status = "returned"

\* The operations that only ask the node a question.
QuestionOps == ReadOps \cup CompileOps

\* C27: readGlobalState, readLocalState, checkAccountInfo and compileProgram
\* build no request, sign nothing and submit nothing; the one call they make
\* to the node is their question, made once; what they return is computed from
\* the answer to it; and they leave every variable other than their own
\* invocation as it was at the start.
C27_ReadOnly ==
  \A p \in procs :
    inv[p].op \in QuestionOps =>
      LET r == inv[p]
          t == r.trace
          question == IF r.op \in CompileOps THEN "compile" ELSE "query"
          asked == Of(t, "request")
          answered == Of(t, "response")
      IN /\ \A i \in asked \cup answered : t[i].s = question
         /\ Cardinality(asked) <= 1
         /\ Before(asked, answered)
         /\ Cardinality(answered) <= Cardinality(asked)
         /\ r.status \in {"returned", "raised"} => Cardinality(asked) = 1
         /\ Of(t, "make") = {} /\ Of(t, "sign") = {}
         /\ Of(t, "lsig.sign") = {} /\ Of(t, "assignGroupID") = {}
         /\ r.txns = <<>> /\ r.signed = <<>> /\ r.txId = 0
         /\ r.confirmed = NoRecord
         /\ heap = InitialHeap /\ wallet = {} /\ msigCalls = <<>>
         /\ recovered = NeverRecovered
         /\ r.status = "returned" =>
              /\ Cardinality(answered) = 1
              /\ r.op = "sc.readGlobalState" => r.result.val.state = GlobalState(r.answer)
              /\ r.op = "sc.readLocalState" =>
                   r.result.val.state = LocalState(r.answer, r.args.appId)
              /\ r.op = "ac.checkAccountInfo" => r.result.val.what = "accountInfo"
              /\ r.op \in CompileOps =>
                   r.result.val.program = Base64Decode(CompiledResult(r.args.programSource))

\* C27 witness: readLocalState has returned the one entry the node reported
\* for the application asked about.
C27_Witness ==
  \E p \in procs :
    /\ inv[p].op = "sc.readLocalState"
    /\ inv[p].status = "returned"
    /\ Cardinality(At(inv[p].trace, "request", "query")) = 1
    /\ inv[p].answer.has
    /\ DOMAIN inv[p].result.val.state # {}

\* C28: what readLocalState returns has no key but those of the entries of
\* the account's first record for the application asked about, and is what the
\* answer without the other applications' records would give; it is the empty
\* object when the answer has no list of local states, no record with that id,
\* or a record with no entries or no entry list; readGlobalState returns the
\* empty object when the application has no global state or an empty one; and
\* neither raises anything but a failure of the call to the node.
C28_OnlyTheApplication ==
  \A p \in procs :
    inv[p].op \in {"sc.readGlobalState", "sc.readLocalState"} =>
      LET r == inv[p]
          a == r.answer
          hit == {i \in 1..Len(a.apps) : a.apps[i].id = r.args.appId}
          first == CHOOSE i \in hit : \A j \in hit : i <= j
          IsHit(rec) == rec.id = r.args.appId
          out == r.result.val.state
      IN /\ r.status = "raised" =>
              /\ r.err \in NetErrors
              /\ Of(r.trace, "response") = {}
         /\ (r.status = "returned" /\ r.op = "sc.readLocalState") =>
              /\ out = LocalState([a EXCEPT !.apps = SelectSeq(a.apps, IsHit)],
                                  r.args.appId)
              /\ \A k \in DOMAIN out :
                   /\ hit # {}
                   /\ \E i \in 1..Len(a.apps[first].kv) :
                        k = Utf8Decode(Base64Decode(a.apps[first].kv[i].key))
              /\ (~a.has \/ hit = {}) => out = <<>>
              /\ (hit # {} /\ (~a.apps[first].has \/ a.apps[first].kv = <<>>)) =>
                   out = <<>>
              /\ (hit # {} /\ a.apps[first].kv # <<>>) => out # <<>>
         /\ (r.status = "returned" /\ r.op = "sc.readGlobalState") =>
              /\ (~a.has \/ a.items = <<>>) => out = <<>>
              /\ a.items # <<>> => out # <<>>

\* C28 witness: the account has a record with an entry for another application
\* ahead of the record for the application asked about, and readLocalState has
\* returned the entry of the latter.
C28_Witness ==
  \E p \in procs :
    /\ inv[p].op = "sc.readLocalState"
    /\ inv[p].status = "returned"
    /\ Len(inv[p].answer.apps) = 2
    /\ inv[p].answer.apps[1].id # inv[p].args.appId
    /\ inv[p].answer.apps[1].kv # <<>>
    /\ inv[p].answer.apps[2].id = inv[p].args.appId
    /\ inv[p].answer.apps[2].kv # <<>>
    /\ inv[p].answer.apps[1].kv[1].key # inv[p].answer.apps[2].kv[1].key
    /\ Cardinality(DOMAIN inv[p].result.val.state) = 1

\* C29: the request callApplication of smart-contracts.js builds has as many
\* application arguments as the caller gave, in the caller's order, a text
\* argument as its UTF-8 bytes and a byte array as it is; and as many accounts
\* as the caller listed, in the caller's order, a text address being the
\* address it spells and an account object being its own address.
C29_ArgsAndAccounts ==
  \A p \in procs :
    (inv[p].op = "sc.callApplication" /\ Of(inv[p].trace, "make") # {}) =>
      LET r == inv[p]
          txn == r.txns[1]
          args == r.args.appArgs
          accts == r.args.accounts
      IN /\ Len(r.txns) = 1
         /\ txn.maker = "makeApplicationNoOpTxnFromObject"
         /\ txn.appIndex = r.args.appId
         /\ Len(txn.appArgs) = Len(args)
         /\ \A i \in 1..Len(args) :
              /\ args[i].type = "string" => txn.appArgs[i] = Utf8(args[i].data)
              /\ args[i].type = "object" => txn.appArgs[i] = args[i].data
              /\ args[i] = StrArg(<<233>>) => txn.appArgs[i] = <<195, 169>>
              /\ args[i] = StrArg(<<105>>) => txn.appArgs[i] = <<105>>
         /\ Len(txn.accounts) = Len(accts)
         /\ \A i \in 1..Len(accts) :
              /\ txn.accounts[i].form = "Address"
              /\ accts[i].type = "string" =>
                   txn.accounts[i] = EnsureAddress(accts[i].text)
              /\ accts[i].type = "object" =>
                   txn.accounts[i] = accts[i].addr
         /\ txn.foreignApps = <<>> /\ txn.foreignAssets = <<>>
         /\ r.signed # <<>> => r.signed[1].txn = txn

\* C29 witness: a call with a byte array and then a text among its arguments,
\* and a text address and then an account object among its accounts, has been
\* built and submitted.
C29_Witness ==
  \E p \in procs :
    /\ inv[p].op = "sc.callApplication"
    /\ Len(inv[p].args.appArgs) = 2
    /\ inv[p].args.appArgs[1].type = "object"
    /\ inv[p].args.appArgs[2].type = "string"
    /\ Len(inv[p].args.accounts) = 2
    /\ inv[p].args.accounts[1].type = "string"
    /\ inv[p].args.accounts[2].type = "object"
    /\ inv[p].txns # <<>>
    /\ At(inv[p].trace, "response", "sendRawTransaction") # {}

\* The sendPayment of the other file.
OtherSendPayment(op) == IF op = "tx.sendPayment" THEN "ex.sendPayment" ELSE "tx.sendPayment"

\* C30: called with a receiver that is an account object and a note that is a
\* text of at least one character, sendPayment of algorand-examples.js and
\* sendPayment of transaction-operations.js have the same body of steps, and
\* at every step either one does what the other would have done from the same
\* locals: the same fields accepted or refused, the same request (sender,
\* receiver, amount, the note's UTF-8 bytes), the same signature, the same
\* wait, the same value returned and the same context logged on an error.
C30_SamePayment ==
  \A p \in procs :
    (/\ inv[p].op \in {"tx.sendPayment", "ex.sendPayment"}
     /\ inv[p].args.receiver.type = "object"
     /\ inv[p].args.note.given /\ inv[p].args.note.text # <<>>) =>
      LET r == inv[p]
          other == OtherSendPayment(r.op)
          mine == Fields(r.op, r.args, r.sp, r.compiled)
          theirs == Fields(other, r.args, r.sp, r.compiled)
      IN /\ Program(r.op) = Program(other)
         /\ ErrorContext(r.op) = ErrorContext(other)
         /\ WaitRounds(r.op, r.args) = WaitRounds(other, r.args)
         /\ Len(mine) = 1 /\ Len(theirs) = 1
         /\ NoTypeError(mine[1]) = NoTypeError(theirs[1])
         /\ FieldsPresent(mine[1]) = FieldsPresent(theirs[1])
         /\ SdkMakeTxn(mine[1]) = SdkMakeTxn(theirs[1])
         /\ r.txns # <<>> =>
              /\ r.txns = <<SdkMakeTxn(theirs[1])>>
              /\ r.txns[1].type = "pay"
              /\ r.txns[1].sender = r.args.sender.addr
              /\ r.txns[1].receiver = r.args.receiver.addr
              /\ r.txns[1].amount = r.args.amount
              /\ r.txns[1].note = Bytes(Utf8(r.args.note.text))
              /\ SignAll(r.op, r.args, r.txns) = SignAll(other, r.args, r.txns)
         /\ r.signed # <<>> => r.signed = SignAll(other, r.args, r.txns).signed
         /\ r.status = "returned" =>
              /\ r.result = Returned(ReturnValue(other, r))
              /\ [i \in 2..Len(r.trace) |-> <<r.trace[i].k, r.trace[i].s>>] =
                   [i \in 2..11 |->
                      <<<<"new Algodv2", "">>,
                        <<"request", "getTransactionParams">>,
                        <<"response", "getTransactionParams">>,
                        <<"make", "makePaymentTxnWithSuggestedParamsFromObject">>,
                        <<"sign", "">>,
                        <<"request", "sendRawTransaction">>,
                        <<"response", "sendRawTransaction">>,
                        <<"request", "waitForConfirmation">>,
                        <<"response", "waitForConfirmation">>,
                        <<"return", "">>>>[i - 1]]

\* C30 witness: the sendPayment of algorand-examples.js has returned for a
\* receiver object other than the sender, an amount above zero and a note of
\* two characters, one of them outside ASCII.
C30_Witness ==
  \E p \in procs :
    /\ inv[p].op = "ex.sendPayment"
    /\ inv[p].status = "returned"
    /\ inv[p].args.receiver \in Accounts \ {inv[p].args.sender}
    /\ inv[p].args.amount > 0
    /\ inv[p].args.note = Text(<<72, 233>>)
    /\ inv[p].txns[1].note.bytes = <<72, 195, 169>>

====
